---- MODULE Spec2Model ----
(***************************************************************************)
(* Discogs-Roulette: the OAuth 1.0a authorization flow and token store     *)
(* (services/discogsAuth, services/userAuth, services/storage), the        *)
(* paginated collection fetcher and the rate-limited release-detail        *)
(* fetcher (services/collectionFetcher) and the recommendation engine      *)
(* (services/recommendationEngine).                                        *)
(*                                                                         *)
(* The four subsystems share the key/value stores but otherwise run as     *)
(* separate state machines, each with its own specification:               *)
(*   Spec            the authorization flow, sign-in/sign-out, token store *)
(*   SpecCollection  fetchUserCollection                                   *)
(*   SpecDetails     fetchMultipleReleaseDetails                           *)
(*   SpecEngine      filterCollection and broadenFilters                   *)
(*   SpecRecommend   recommendAlbum and the fetchAndRecommend pipeline     *)
(*   SpecCollectionLive  SpecCollection with every awaited step fair       *)
(*   SpecTokenStore  storeTokens, clearStoredTokens and getStoredTokens,   *)
(*                   one storage call per step                             *)
(* JavaScript runs one callback at a time: an action is the code between   *)
(* two network awaits (or the whole handler when it makes none).           *)
(***************************************************************************)
EXTENDS Integers, Sequences, FiniteSets, TLC

VARIABLES
    \* ---- the two key/value back ends of services/storage.ts
    isWeb,          \* Platform.OS === 'web'
    secureStore,    \* expo-secure-store (mobile)
    asyncStorage,   \* AsyncStorage (web, and every direct AsyncStorage call)
    \* ---- fetchUserCollection
    fc_pc,          \* position of the call
    fc_userId,      \* its userId argument
    fc_tokens,      \* const tokens (line 15)
    page,           \* let page
    hasMore,        \* let hasMore
    allItems,       \* const allItems
    fc_log,         \* history: one entry per loop iteration
    fc_result,      \* the value the call returned
    \* ---- fetchMultipleReleaseDetails
    fd_pc,          \* position of the call
    releaseIds,     \* its releaseIds argument
    onProgress,     \* whether an onProgress callback was passed
    fd_i,           \* let i
    releaseMap,     \* const releaseMap
    now,            \* the clock, in ms
    fd_attempts,    \* history: one entry per loop iteration
    progressCalls,  \* history: the <<current, total>> onProgress was called with
    fd_result,      \* the value the call returned
    \* ---- the authorization flow (initiateAuth, handleAuthCallback)
    DISCOGS_CONFIG, \* config/discogs: the consumer key and secret of the build
    flows,          \* one record per authorization attempt
    restartNeeded,  \* history: an attempt failed in its request-token or
                    \* exchange leg and no request-token request was made since
    \* ---- the token store, call by call
    ts_writer,      \* the storeTokens / clearStoredTokens call under way
    ts_reader,      \* the getStoredTokens call under way
    ts_given,       \* history: per user, the token sets passed to storeTokens
    \* ---- the recommendation engine
    eng_pc,         \* position of the call
    collection,     \* the collection argument
    answers,        \* the answers argument
    filtered,       \* the value filterCollection / broadenFilters returned
    eng_error,      \* the error the call threw, "none" when it returned
    relaxations,    \* history: the answers broadenFilters filtered with, in order
    rec_collection, \* the collection recommendAlbum was called with
    scoredItems,    \* const scoredItems, after the sort
    rec_selectable, \* history: the entries selectedMatch was drawn from
    rec_fromMap,    \* history: releaseDataMap had an entry for the selected item
    recommendation  \* the value recommendAlbum returned

storeVars == <<isWeb, secureStore, asyncStorage>>
fcVars == <<fc_pc, fc_userId, fc_tokens, page, hasMore, allItems, fc_log, fc_result>>

fdVars == <<fd_pc, releaseIds, onProgress, fd_i, releaseMap, now, fd_attempts,
            progressCalls, fd_result>>

authVars == <<DISCOGS_CONFIG, flows, restartNeeded>>

recVars == <<rec_collection, scoredItems, rec_selectable, rec_fromMap, recommendation>>

engVars == <<eng_pc, collection, answers, filtered, eng_error, relaxations, recVars>>

tsVars == <<ts_writer, ts_reader, ts_given>>

vars == <<storeVars, fcVars, fdVars, authVars, engVars, tsVars>>

----------------------------------------------------------------------------
(* Values.  Every stored value is a string; null and undefined are two     *)
(* reserved strings, so that JavaScript's truthiness test is Falsy below.  *)

NULL == "<null>"
UNDEFINED == "<undefined>"

\* !v for a value of type string | null | undefined
Falsy(v) == v \in {NULL, UNDEFINED, ""}

\* the app's local accounts (User.id)
Users == {"A", "B"}

\* userAuth.ts CURRENT_USER_KEY
CURRENT_USER_KEY == "current_user_id"
\* discogsAuth.ts, the three transient keys of an authorization attempt
OAUTH_USER_ID_KEY == "discogs_oauth_user_id"
REQUEST_TOKEN_KEY == "discogs_request_token"
REQUEST_TOKEN_SECRET_KEY == "discogs_request_token_secret"
\* a token key that leaves the user id out
TokenKey_shared(u) == "discogs_access_token_"

\* `${TOKEN_STORAGE_KEY_PREFIX}${userId}` and its two siblings
TokenKey(u) == "discogs_access_token_" \o u
TokenSecretKey(u) == "discogs_access_token_secret_" \o u
UsernameKey(u) == "discogs_username_" \o u

Keys ==
    {CURRENT_USER_KEY, OAUTH_USER_ID_KEY, REQUEST_TOKEN_KEY, REQUEST_TOKEN_SECRET_KEY}
    \cup {TokenKey(u) : u \in Users}
    \cup {TokenSecretKey(u) : u \in Users}
    \cup {UsernameKey(u) : u \in Users}

EmptyStore == [k \in Keys |-> NULL]

----------------------------------------------------------------------------
(* services/storage.ts.  SecureStore calls are taken not to throw, so the  *)
(* catch branches that fall back to AsyncStorage are not taken.            *)

\* getItem(key)
getItem(key) == IF isWeb THEN asyncStorage[key] ELSE secureStore[key]

\* a store after the writes <<key, value>> of ws, first to last
RECURSIVE Apply(_, _)
Apply(store, ws) ==
    IF ws = <<>> THEN store
    ELSE Apply([store EXCEPT ![ws[1][1]] = ws[1][2]], Tail(ws))

\* a run of setItem(key, value) / removeItem(key) calls (removeItem writes NULL)
StorageWrites(ws) ==
    IF isWeb
    THEN asyncStorage' = Apply(asyncStorage, ws) /\ UNCHANGED <<isWeb, secureStore>>
    ELSE secureStore' = Apply(secureStore, ws) /\ UNCHANGED <<isWeb, asyncStorage>>

\* the same run followed by direct AsyncStorage writes
StorageAndAsyncWrites(ws, aws) ==
    IF isWeb
    THEN asyncStorage' = Apply(Apply(asyncStorage, ws), aws)
         /\ UNCHANGED <<isWeb, secureStore>>
    ELSE secureStore' = Apply(secureStore, ws)
         /\ asyncStorage' = Apply(asyncStorage, aws)
         /\ UNCHANGED isWeb

----------------------------------------------------------------------------
(* discogsAuth.ts: the token store                                         *)

NoTokens == [token |-> NULL, tokenSecret |-> NULL, username |-> NULL]

\* the user id getStoredTokens / storeTokens / clearStoredTokens work on:
\* the argument, else AsyncStorage's current_user_id
ResolveUserId(userId) ==
    IF Falsy(userId) THEN asyncStorage[CURRENT_USER_KEY] ELSE userId

\* a getStoredTokens that does not look at the token secret
getStoredTokens_noSecret(userId) ==
    LET u == ResolveUserId(userId) IN
    IF Falsy(u) THEN NoTokens
    ELSE LET token == getItem(TokenKey(u))
             tokenSecret == getItem(TokenSecretKey(u))
             username == getItem(UsernameKey(u))
         IN  IF ~Falsy(token) /\ ~Falsy(username)
             THEN [token |-> token, tokenSecret |-> tokenSecret, username |-> username]
             ELSE NoTokens

\* getStoredTokens(userId): the three values when all are truthy, else null
getStoredTokens(userId) ==
    LET u == ResolveUserId(userId) IN
    IF Falsy(u) THEN NoTokens
    ELSE LET token == getItem(TokenKey(u))
             tokenSecret == getItem(TokenSecretKey(u))
             username == getItem(UsernameKey(u))
         IN  IF ~Falsy(token) /\ ~Falsy(tokenSecret) /\ ~Falsy(username)
             THEN [token |-> token, tokenSecret |-> tokenSecret, username |-> username]
             ELSE NoTokens

\* the writes of storeTokens(tokens, userId)
storeTokens(tokens, u) ==
    << <<TokenKey(u), tokens.token>>,
       <<TokenSecretKey(u), tokens.tokenSecret>>,
       <<UsernameKey(u), tokens.username>> >>

\* the writes of clearStoredTokens(userId); none without a user
clearStoredTokens(userId) ==
    LET u == ResolveUserId(userId) IN
    IF Falsy(u) THEN <<>>
    ELSE << <<TokenKey(u), NULL>>, <<TokenSecretKey(u), NULL>>, <<UsernameKey(u), NULL>> >>

\* a token set as an earlier, completed authorization left it
StoredSet(u) == [token |-> "at0", tokenSecret |-> "as0", username |-> "dj"]


----------------------------------------------------------------------------
(* discogsAuth.ts: the token store, one storage call at a time.  Each      *)
(* setItem / getItem / removeItem is awaited, so other callbacks run       *)
(* between two of them.                                                    *)

\* the token sets authorizations of user u yield
TokenSetsFor(u) ==
    {[token |-> "at_" \o u \o n, tokenSecret |-> "as_" \o u \o n, username |-> "dj_" \o u \o n] :
        n \in {"_old", "_new"}}

IdleWriter == [pc |-> "idle", op |-> "none", userId |-> UNDEFINED, user |-> NULL,
               tokens |-> NoTokens]
IdleReader == [pc |-> "idle", userId |-> UNDEFINED, user |-> NULL, token |-> NULL,
               tokenSecret |-> NULL, username |-> NULL, result |-> NoTokens]

TsIdle ==
    /\ ts_writer = IdleWriter
    /\ ts_reader = IdleReader
    /\ ts_given = [u \in Users |-> {}]

WriterFree == ts_writer.pc \in {"idle", "returned", "thrown"}
ReaderFree == ts_reader.pc \in {"idle", "returned"}

\* storeTokens lines 544-553: the user id is resolved, 'No user logged in'
\* is thrown without one
StoreTokensBegin(tokens, userId) ==
    LET u == ResolveUserId(userId) IN
    /\ WriterFree
    /\ IF Falsy(u)
       THEN /\ ts_writer' = [IdleWriter EXCEPT !.pc = "thrown", !.op = "storeTokens",
                                                !.userId = userId, !.tokens = tokens]
            /\ UNCHANGED ts_given
       ELSE /\ ts_writer' = [pc |-> "token", op |-> "storeTokens", userId |-> userId,
                             user |-> u, tokens |-> tokens]
            /\ ts_given' = [ts_given EXCEPT ![u] = @ \cup {tokens}]
    /\ UNCHANGED <<ts_reader, storeVars, fcVars, fdVars, authVars, engVars>>

\* clearStoredTokens lines 568-574: the user id is resolved, the call
\* returns without one
ClearStoredTokensBegin(userId) ==
    LET u == ResolveUserId(userId) IN
    /\ WriterFree
    /\ IF Falsy(u)
       THEN ts_writer' = [IdleWriter EXCEPT !.pc = "returned", !.op = "clearStoredTokens",
                                           !.userId = userId]
       ELSE ts_writer' = [pc |-> "token", op |-> "clearStoredTokens", userId |-> userId,
                          user |-> u, tokens |-> NoTokens]
    /\ UNCHANGED <<ts_reader, ts_given, storeVars, fcVars, fdVars, authVars, engVars>>

\* the key a call is at
KeyAt(pc, u) ==
    IF pc = "token" THEN TokenKey(u)
    ELSE IF pc = "tokenSecret" THEN TokenSecretKey(u)
    ELSE UsernameKey(u)

\* the position after a call's storage call at pc
AfterKey(pc) ==
    IF pc = "token" THEN "tokenSecret"
    ELSE IF pc = "tokenSecret" THEN "username"
    ELSE "returned"

\* lines 556-558 and 577-579: the next setItem (removeItem writes NULL)
TokenStoreSetItem ==
    /\ ts_writer.pc \in {"token", "tokenSecret", "username"}
    /\ StorageWrites(<< <<KeyAt(ts_writer.pc, ts_writer.user), ts_writer.tokens[ts_writer.pc]>> >>)
    /\ ts_writer' = [ts_writer EXCEPT !.pc = AfterKey(@)]
    /\ UNCHANGED <<ts_reader, ts_given, fcVars, fdVars, authVars, engVars>>

\* getStoredTokens lines 518-524: the user id is resolved, null without one
GetStoredTokensBegin(userId) ==
    LET u == ResolveUserId(userId) IN
    /\ ReaderFree
    /\ IF Falsy(u)
       THEN ts_reader' = [IdleReader EXCEPT !.pc = "returned", !.userId = userId]
       ELSE ts_reader' = [IdleReader EXCEPT !.pc = "token", !.userId = userId, !.user = u]
    /\ UNCHANGED <<ts_writer, ts_given, storeVars, fcVars, fdVars, authVars, engVars>>

\* the set getStoredTokens returns for what it read: null unless all three
\* are truthy (lines 531-534)
tokensRead(token, tokenSecret, username) ==
    IF ~Falsy(token) /\ ~Falsy(tokenSecret) /\ ~Falsy(username)
    THEN [token |-> token, tokenSecret |-> tokenSecret, username |-> username]
    ELSE NoTokens

\* lines 527-534: the next getItem, and the return after the third
GetStoredTokensGetItem ==
    LET pc == ts_reader.pc
        read == [ts_reader EXCEPT ![pc] = getItem(KeyAt(pc, ts_reader.user)),
                                  !.pc = AfterKey(pc)]
    IN  /\ pc \in {"token", "tokenSecret", "username"}
        /\ ts_reader' = IF pc = "username"
                        THEN [read EXCEPT !.result =
                                 tokensRead(read.token, read.tokenSecret, read.username)]
                        ELSE read
        /\ UNCHANGED <<ts_writer, ts_given, storeVars, fcVars, fdVars, authVars, engVars>>

----------------------------------------------------------------------------
(* discogsAuth.ts: initiateAuth, getRequestToken, handleAuthCallback;      *)
(* userAuth.ts: signIn, signOut                                            *)

\* the number of authorization attempts explored
MaxFlows == 2
Flows == 1..MaxFlows

\* what the server hands out: attempt f's request token and secret, and the
\* access token and secret its exchange yields
RequestTokenNames == <<"rt1", "rt2", "rt3", "rt4">>
RequestSecretNames == <<"rs1", "rs2", "rs3", "rs4">>
AccessTokenNames == <<"at1", "at2", "at3", "at4">>
AccessSecretNames == <<"as1", "as2", "as3", "as4">>

NoTokenData == [oauth_token |-> UNDEFINED, oauth_token_secret |-> UNDEFINED, username |-> UNDEFINED]

\* the parsed bodies the access-token endpoint may answer attempt f with: the
\* token pair, with or without a username, or a body whose oauth_token is empty
ExchangeBodies(f) ==
    {[oauth_token |-> AccessTokenNames[f], oauth_token_secret |-> AccessSecretNames[f],
      username |-> n] : n \in {UNDEFINED, "dj"}}
    \cup {[oauth_token |-> "", oauth_token_secret |-> AccessSecretNames[f],
            username |-> UNDEFINED]}

\* the username the identity endpoint may report: one, or none
IdentityUsernames == {"dj_identity", UNDEFINED}

\* A callback URL: whether it has a '?', and the key=value pairs after it
CallbackUrl(hasQuery, query) == [hasQuery |-> hasQuery, query |-> query]

NoCallbackUrl == CallbackUrl(FALSE, <<>>)

\* the callback URLs attempt f's authorization page may come back with: both
\* parameters, the verifier empty or absent (the user denied access), the
\* token absent, or no query string at all
CallbackUrls(f) ==
    {CallbackUrl(TRUE, << <<"oauth_token", RequestTokenNames[f]>>, <<"oauth_verifier", "verifier">> >>),
     CallbackUrl(TRUE, << <<"oauth_token", RequestTokenNames[f]>>, <<"oauth_verifier", "">> >>),
     CallbackUrl(TRUE, << <<"oauth_token", RequestTokenNames[f]>>, <<"denied", "1">> >>),
     CallbackUrl(TRUE, << <<"oauth_verifier", "verifier">> >>),
     NoCallbackUrl}

\* lines 815-819: urlParams[key] after the forEach (a later pair overwrites
\* an earlier one; a pair without value gives ''), undefined without a pair
urlParam(url, key) ==
    LET at == {i \in 1..Len(url.query) : url.query[i][1] = key}
    IN  IF at = {} THEN UNDEFINED
        ELSE url.query[CHOOSE i \in at : \A j \in at : j <= i][2]

\* a parameter test that wants the verifier only
missingParameter_verifierOnly(oauthVerifier, oauthToken) == Falsy(oauthVerifier)

\* line 824: !oauthVerifier || !oauthToken
missingParameter(oauthVerifier, oauthToken) == Falsy(oauthVerifier) \/ Falsy(oauthToken)

IdleFlow ==
    [pc |-> "idle", userId |-> NULL, callbackUrl |-> NoCallbackUrl,
     oauthToken |-> NULL, requestTokenSecret |-> NULL,
     tokenData |-> NoTokenData, storeUserId |-> NULL, identity |-> "none",
     result |-> NoTokens, error |-> "none", nRequestToken |-> 0, nExchange |-> 0,
     resumed |-> FALSE]

\* the placeholders of config/discogs.ts (SETUP.md lines 50-51, 278-279)
PLACEHOLDER_KEY == "YOUR_CONSUMER_KEY"
PLACEHOLDER_SECRET == "YOUR_CONSUMER_SECRET"

\* a build with credentials
Configured == [consumerKey |-> "ck", consumerSecret |-> "cs"]

\* the builds there are: each credential set, empty, undefined or left at
\* its placeholder
Configs ==
    {[consumerKey |-> k, consumerSecret |-> c] :
        k \in {"ck", "", UNDEFINED, PLACEHOLDER_KEY},
        c \in {"cs", "", UNDEFINED, PLACEHOLDER_SECRET}}

\* a validation that knows nothing of placeholders
credentialError_missingOnly(config) ==
    IF Falsy(config.consumerKey)
    THEN "Discogs Consumer Key is not configured"
    ELSE IF Falsy(config.consumerSecret)
    THEN "Discogs Consumer Secret is not configured"
    ELSE "none"

\* getRequestToken lines 606-612: the error the validation throws, "none"
\* when it passes
credentialError(config) ==
    IF Falsy(config.consumerKey) \/ config.consumerKey = PLACEHOLDER_KEY
    THEN "Discogs Consumer Key is not configured"
    ELSE IF Falsy(config.consumerSecret) \/ config.consumerSecret = PLACEHOLDER_SECRET
    THEN "Discogs Consumer Secret is not configured"
    ELSE "none"

FlowsIdle ==
    /\ flows = [f \in Flows |-> IdleFlow]
    /\ restartNeeded = FALSE

AuthIdle ==
    /\ DISCOGS_CONFIG = Configured
    /\ FlowsIdle

\* signIn, lines 431-432 (the password check passed)
SignIn(u) ==
    /\ asyncStorage[CURRENT_USER_KEY] = NULL
    /\ asyncStorage' = [asyncStorage EXCEPT ![CURRENT_USER_KEY] = u]
    /\ UNCHANGED <<isWeb, secureStore, fcVars, fdVars, authVars, engVars, tsVars>>

\* AuthContext handleSignOut -> signOut (lines 440-442): current_user_id is
\* removed, and nothing else
SignOut ==
    /\ asyncStorage[CURRENT_USER_KEY] # NULL
    /\ asyncStorage' = [asyncStorage EXCEPT ![CURRENT_USER_KEY] = NULL]
    /\ UNCHANGED <<isWeb, secureStore, fcVars, fdVars, authVars, engVars, tsVars>>

\* initiateAuth lines 731-746 and getRequestToken up to its axios call, for
\* the signed-in user (every caller passes user.id): the user id is parked
\* under discogs_oauth_user_id; then the credentials are validated and
\* either the validation's error is thrown on (lines 796-799) or the
\* request-token request goes out.  The screens start one attempt at a
\* time: none is in its request-token leg.
InitiateAuth(f) ==
    LET userId == asyncStorage[CURRENT_USER_KEY] IN
    /\ flows[f].pc = "idle"
    /\ \A g \in Flows : g < f => flows[g].pc # "idle"
    /\ \A g \in Flows : flows[g].pc # "requesting"
    /\ ~Falsy(userId)
    /\ StorageWrites(<< <<OAUTH_USER_ID_KEY, userId>> >>)
    /\ IF credentialError(DISCOGS_CONFIG) # "none"
       THEN /\ flows' = [flows EXCEPT ![f].pc = "failed", ![f].userId = userId,
                                      ![f].error = credentialError(DISCOGS_CONFIG)]
            /\ UNCHANGED restartNeeded
       ELSE /\ flows' = [flows EXCEPT ![f].pc = "requesting", ![f].userId = userId,
                                      ![f].nRequestToken = @ + 1]
            /\ restartNeeded' = FALSE
    /\ UNCHANGED <<DISCOGS_CONFIG, fcVars, fdVars, engVars, tsVars>>

\* getRequestToken lines 713-725: the request threw
RequestTokenError(f) ==
    /\ flows[f].pc = "requesting"
    /\ flows' = [flows EXCEPT ![f].pc = "failed", ![f].error = "Failed to get request token"]
    /\ restartNeeded' = TRUE
    /\ UNCHANGED <<storeVars, DISCOGS_CONFIG, fcVars, fdVars, engVars, tsVars>>

\* getRequestToken lines 703-706: the body lacks oauth_token or
\* oauth_token_secret
RequestTokenMalformed(f) ==
    /\ flows[f].pc = "requesting"
    /\ flows' = [flows EXCEPT ![f].pc = "failed",
                              ![f].error = "Invalid response from Discogs: missing tokens"]
    /\ UNCHANGED <<restartNeeded, storeVars, DISCOGS_CONFIG, fcVars, fdVars, engVars, tsVars>>

\* getRequestToken lines 708-712 and initiateAuth lines 749-790: the token
\* pair is stored and the user is sent to the authorization page
RequestTokenReceived(f) ==
    /\ flows[f].pc = "requesting"
    /\ StorageWrites(<< <<REQUEST_TOKEN_KEY, RequestTokenNames[f]>>,
                        <<REQUEST_TOKEN_SECRET_KEY, RequestSecretNames[f]>> >>)
    /\ flows' = [flows EXCEPT ![f].pc = "awaiting"]
    /\ UNCHANGED <<restartNeeded, DISCOGS_CONFIG, fcVars, fdVars, engVars, tsVars>>

\* handleAuthCallback lines 806-865, called with a callback URL of attempt f
HandleAuthCallback(f, callbackUrl) ==
    LET oauthVerifier == urlParam(callbackUrl, "oauth_verifier")
        oauthToken == urlParam(callbackUrl, "oauth_token")
        requestToken == getItem(REQUEST_TOKEN_KEY)
        requestTokenSecret == getItem(REQUEST_TOKEN_SECRET_KEY)
    IN
    /\ flows[f].pc = "awaiting"
    /\ IF ~callbackUrl.hasQuery
       THEN /\ flows' = [flows EXCEPT ![f].pc = "failed", ![f].callbackUrl = callbackUrl,
                                      ![f].error = "Invalid callback URL format"]
            /\ UNCHANGED storeVars
       ELSE IF missingParameter(oauthVerifier, oauthToken)
       THEN /\ flows' = [flows EXCEPT ![f].pc = "failed", ![f].callbackUrl = callbackUrl,
                                      ![f].error = "Invalid callback URL"]
            /\ UNCHANGED storeVars
       ELSE IF Falsy(requestToken) \/ Falsy(requestTokenSecret)
       THEN /\ flows' = [flows EXCEPT ![f].pc = "failed", ![f].callbackUrl = callbackUrl,
                                      ![f].error = "Request tokens not found"]
            /\ UNCHANGED storeVars
       ELSE /\ StorageWrites(<< <<REQUEST_TOKEN_KEY, NULL>>, <<REQUEST_TOKEN_SECRET_KEY, NULL>> >>)
            /\ flows' = [flows EXCEPT ![f].pc = "exchanging", ![f].callbackUrl = callbackUrl,
                                      ![f].oauthToken = oauthToken,
                                      ![f].requestTokenSecret = requestTokenSecret,
                                      ![f].nExchange = @ + 1,
                                      ![f].resumed = restartNeeded]
    /\ UNCHANGED <<restartNeeded, DISCOGS_CONFIG, fcVars, fdVars, engVars, tsVars>>

\* the access-token endpoint accepts a request whose PLAINTEXT signature
\* carries the secret issued with the oauth_token it names
ExchangeAccepted(f) ==
    \E g \in Flows : /\ flows[f].oauthToken = RequestTokenNames[g]
                     /\ flows[f].requestTokenSecret = RequestSecretNames[g]

\* a catch that also wipes the token set of the attempt's user
ExchangeError_clears(f) ==
    /\ flows[f].pc = "exchanging"
    /\ flows' = [flows EXCEPT ![f].pc = "failed", ![f].error = "Failed to exchange tokens"]
    /\ restartNeeded' = TRUE
    /\ StorageWrites(clearStoredTokens(flows[f].userId))
    /\ UNCHANGED <<DISCOGS_CONFIG, fcVars, fdVars, engVars, tsVars>>

\* lines 940-943: the exchange request threw (no answer, or a refusal)
ExchangeError(f) ==
    /\ flows[f].pc = "exchanging"
    /\ flows' = [flows EXCEPT ![f].pc = "failed", ![f].error = "Failed to exchange tokens"]
    /\ restartNeeded' = TRUE
    /\ UNCHANGED <<storeVars, DISCOGS_CONFIG, fcVars, fdVars, engVars, tsVars>>

\* lines 867-911: the exchange was answered with body tokenData; the user id
\* is taken from discogs_oauth_user_id, else current_user_id, and the
\* identity request goes out
ExchangeResponse(f, tokenData) ==
    LET parked == getItem(OAUTH_USER_ID_KEY)
        userId == IF Falsy(parked) THEN asyncStorage[CURRENT_USER_KEY] ELSE parked
    IN
    /\ flows[f].pc = "exchanging"
    /\ ExchangeAccepted(f)
    /\ IF Falsy(userId)
       THEN /\ flows' = [flows EXCEPT ![f].pc = "failed", ![f].tokenData = tokenData,
                                      ![f].error = "Failed to exchange tokens"]
            /\ UNCHANGED storeVars
       ELSE /\ StorageWrites(<< <<OAUTH_USER_ID_KEY, NULL>> >>)
            /\ flows' = [flows EXCEPT ![f].pc = "identity", ![f].tokenData = tokenData,
                                      ![f].storeUserId = userId]
    /\ UNCHANGED <<restartNeeded, DISCOGS_CONFIG, fcVars, fdVars, engVars, tsVars>>

\* tokenData.username || 'unknown'
FallbackUsername(tokenData) ==
    IF Falsy(tokenData.username) THEN "unknown" ELSE tokenData.username

\* the AccessTokens both branches build
AccessTokens(tokenData, username) ==
    [token |-> tokenData.oauth_token, tokenSecret |-> tokenData.oauth_token_secret,
     username |-> username]

\* lines 913-924: the identity endpoint answered (it knows no empty token);
\* the token set is stored and returned
IdentityResponse(f, identityUsername) ==
    LET tokenData == flows[f].tokenData
        username == IF Falsy(identityUsername) THEN FallbackUsername(tokenData)
                    ELSE identityUsername
        accessTokens == AccessTokens(tokenData, username)
    IN
    /\ flows[f].pc = "identity"
    /\ ~Falsy(tokenData.oauth_token)
    /\ StorageWrites(storeTokens(accessTokens, flows[f].storeUserId))
    /\ flows' = [flows EXCEPT ![f].pc = "authenticated", ![f].identity = "ok",
                              ![f].result = accessTokens]
    /\ UNCHANGED <<restartNeeded, DISCOGS_CONFIG, fcVars, fdVars, engVars, tsVars>>

\* an identity catch that gives the flow up
pcAfterIdentityError_fatal == "failed"

\* lines 925-939: where the flow stands after the identity catch
pcAfterIdentityError == "authenticated"

\* lines 925-939: the identity request threw; the username falls back to the
\* exchange body's, the token set is stored and returned
IdentityError(f) ==
    LET tokenData == flows[f].tokenData
        accessTokens == AccessTokens(tokenData, FallbackUsername(tokenData))
    IN
    /\ flows[f].pc = "identity"
    /\ IF pcAfterIdentityError = "authenticated"
       THEN /\ StorageWrites(storeTokens(accessTokens, flows[f].storeUserId))
            /\ flows' = [flows EXCEPT ![f].pc = "authenticated", ![f].identity = "failed",
                                      ![f].result = accessTokens]
       ELSE /\ flows' = [flows EXCEPT ![f].pc = "failed", ![f].identity = "failed",
                                      ![f].error = "Failed to exchange tokens"]
            /\ UNCHANGED storeVars
    /\ UNCHANGED <<restartNeeded, DISCOGS_CONFIG, fcVars, fdVars, engVars, tsVars>>

----------------------------------------------------------------------------
(* recommendationEngine.ts: quizToFilterCriteria, the four match           *)
(* predicates and filterCollection                                         *)

\* the longest collection explored
MaxCollection == 3

\* String.prototype.toLowerCase, over the letters the inputs use
UpperCase == "ABCDEFGHIJKLMNOPQRSTUVWXYZ"
LowerCase == "abcdefghijklmnopqrstuvwxyz"

\* the lower-case form of each upper-case letter
LowerTable ==
    [c \in {SubSeq(UpperCase, i, i) : i \in 1..Len(UpperCase)} |->
        LET i == CHOOSE i \in 1..Len(UpperCase) : SubSeq(UpperCase, i, i) = c
        IN  SubSeq(LowerCase, i, i)]

LowerChar(c) == IF c \in DOMAIN LowerTable THEN LowerTable[c] ELSE c

RECURSIVE toLowerCase(_)
toLowerCase(s) ==
    IF s = "" THEN ""
    ELSE LowerChar(SubSeq(s, 1, 1)) \o toLowerCase(SubSeq(s, 2, Len(s)))

\* String.prototype.includes: t occurs in s as a substring
includes(s, t) ==
    \E i \in 1..(Len(s) - Len(t) + 1) : SubSeq(s, i, i + Len(t) - 1) = t

\* Array.prototype.join(sep) of an array of strings
RECURSIVE join(_, _)
join(a, sep) ==
    IF a = <<>> THEN ""
    ELSE IF Len(a) = 1 THEN a[1]
    ELSE a[1] \o sep \o join(Tail(a), sep)

\* Array.prototype.map(f) for f = toLowerCase
lowerAll(a) == [i \in 1..Len(a) |-> toLowerCase(a[i])]

\* an optional string array: present, or undefined
Arr(elems) == [array |-> TRUE, elems |-> elems]
Missing == [array |-> FALSE, elems |-> <<>>]
\* a || []
OrEmpty(a) == IF a.array THEN a.elems ELSE <<>>

\* CollectionItem, with the parts of basic_information the engine reads
\* (year 0: Discogs reports no year; daysSinceAdded: the age of date_added)
Item(id, title, year, genres, styles, formats, rating, daysSinceAdded) ==
    [id |-> id, rating |-> rating, daysSinceAdded |-> daysSinceAdded,
     basic_information |->
        [id |-> id, title |-> title, year |-> year, genres |-> genres,
         styles |-> styles, formats |-> [i \in 1..Len(formats) |-> [name |-> formats[i]]]]]

\* the releases collections are drawn from
ItemPool ==
    { Item(11, "Dark Side", 1973, Arr(<<"Rock">>), Arr(<<"Prog Rock">>),
           <<"Vinyl", "LP", "Album">>, 5, 10),
      Item(12, "Blue Monday", 1983, Arr(<<"Electronic">>), Arr(<<"Synth-pop">>),
           <<"Vinyl", "12\"", "Single">>, 0, 10),
      Item(13, "Kind of Blue", 0, Missing, Missing, <<"CD">>, 0, 60),
      Item(14, "Hey Ya", 2003, Arr(<<"Hip Hop">>), Arr(<<>>),
           <<"Vinyl", "7\"">>, 0, 400) }

RECURSIVE SeqsUpTo(_, _)
SeqsUpTo(S, n) ==
    IF n = 0 THEN {<<>>}
    ELSE LET shorter == SeqsUpTo(S, n - 1)
         IN  shorter \cup {Append(s, x) : s \in {t \in shorter : Len(t) = n - 1}, x \in S}

Collections == SeqsUpTo(ItemPool, MaxCollection)

\* QuizAnswers (language is read by no function of the engine)
AnswerSets ==
    [mood : {"melancholic", "happy"},
     tempo : {"medium", "fast"},
     genres : {<<>>, <<"Rock">>, <<"jazz", "Electronic">>},
     decade : {"any", "1970s", "1990s"},
     format : {"album", "single", "both"}]

\* decade: null
NoDecade == [min |-> -1, max |-> -1]

decadeMap ==
    [d \in {"1960s", "1970s", "1980s", "1990s", "2000s", "2010s", "2020s"} |->
        CASE d = "1960s" -> [min |-> 1960, max |-> 1969]
          [] d = "1970s" -> [min |-> 1970, max |-> 1979]
          [] d = "1980s" -> [min |-> 1980, max |-> 1989]
          [] d = "1990s" -> [min |-> 1990, max |-> 1999]
          [] d = "2000s" -> [min |-> 2000, max |-> 2009]
          [] d = "2010s" -> [min |-> 2010, max |-> 2019]
          [] d = "2020s" -> [min |-> 2020, max |-> 2029]]

moodMap ==
    [m \in {"energetic", "relaxed", "melancholic", "happy", "aggressive", "peaceful"} |->
        CASE m = "energetic" -> <<"energetic", "upbeat", "dance", "electronic", "rock", "punk">>
          [] m = "relaxed" -> <<"ambient", "chill", "jazz", "lounge", "smooth", "soft">>
          [] m = "melancholic" -> <<"sad", "melancholic", "depressive", "dark", "gothic", "doom">>
          [] m = "happy" -> <<"happy", "upbeat", "pop", "cheerful", "bright">>
          [] m = "aggressive" -> <<"aggressive", "metal", "hardcore", "punk", "thrash">>
          [] m = "peaceful" -> <<"ambient", "meditation", "new age", "calm", "peaceful">>]

tempoMap ==
    [t \in {"slow", "medium", "fast", "very-fast"} |->
        CASE t = "slow" -> <<"slow", "ballad", "ambient", "downtempo">>
          [] t = "medium" -> <<"moderate", "mid-tempo">>
          [] t = "fast" -> <<"fast", "upbeat", "dance", "techno">>
          [] t = "very-fast" -> <<"very fast", "hardcore", "speed", "thrash">>]

\* quizToFilterCriteria(answers)
quizToFilterCriteria(a) ==
    [genres |-> a.genres,
     decade |-> IF a.decade = "any" THEN NoDecade
                ELSE IF a.decade \in DOMAIN decadeMap THEN decadeMap[a.decade]
                ELSE NoDecade,
     mood |-> IF a.mood \in DOMAIN moodMap THEN moodMap[a.mood] ELSE <<>>,
     tempo |-> IF a.tempo \in DOMAIN tempoMap THEN tempoMap[a.tempo] ELSE <<>>,
     format |-> a.format]

\* matchesFormat(item, format)
matchesFormat(item, format) ==
    LET formats == [i \in 1..Len(item.basic_information.formats) |->
                        toLowerCase(item.basic_information.formats[i].name)]
        isSingle == \E i \in 1..Len(formats) :
                        includes(formats[i], "single") \/ includes(formats[i], "7\"")
        isAlbum == \E i \in 1..Len(formats) :
                        \/ includes(formats[i], "album")
                        \/ includes(formats[i], "lp")
                        \/ includes(formats[i], "12\"")
    IN  IF format = "both" THEN TRUE
        ELSE IF format = "single" THEN isSingle
        ELSE IF format = "album" THEN isAlbum \/ ~isSingle
        ELSE TRUE

\* matchesGenre(item, genres)
matchesGenre(item, genres) ==
    LET itemGenres == lowerAll(OrEmpty(item.basic_information.genres)
                               \o OrEmpty(item.basic_information.styles))
    IN  IF Len(genres) = 0 THEN TRUE
        ELSE \E g \in 1..Len(genres) : \E i \in 1..Len(itemGenres) :
                includes(itemGenres[i], toLowerCase(genres[g]))

\* matchesDecade(item, decade); year || 0 is the year itself
matchesDecade(item, decade) ==
    LET year == item.basic_information.year
    IN  IF decade = NoDecade THEN TRUE
        ELSE year >= decade.min /\ year <= decade.max

\* matchesMoodTempo(item, moodKeywords, tempoKeywords)
matchesMoodTempo(item, moodKeywords, tempoKeywords) ==
    LET allKeywords == moodKeywords \o tempoKeywords
        itemText == toLowerCase(join(OrEmpty(item.basic_information.genres)
                                     \o OrEmpty(item.basic_information.styles)
                                     \o <<item.basic_information.title>>, " "))
    IN  IF Len(allKeywords) = 0 THEN TRUE
        ELSE \E k \in 1..Len(allKeywords) : includes(itemText, toLowerCase(allKeywords[k]))

\* a filter callback that wants all three of genre, decade and mood/tempo
retained_all(formatOk, genreOk, decadeOk, moodTempoOk) ==
    formatOk /\ genreOk /\ decadeOk /\ moodTempoOk

\* the callback of filterCollection, lines 193-202, on the four verdicts
retained(formatOk, genreOk, decadeOk, moodTempoOk) ==
    IF ~formatOk THEN FALSE
    ELSE genreOk \/ decadeOk \/ moodTempoOk

\* Array.prototype.filter with that callback
RECURSIVE filterItems(_, _)
filterItems(coll, criteria) ==
    IF coll = <<>> THEN <<>>
    ELSE LET item == Head(coll)
             keep == retained(matchesFormat(item, criteria.format),
                              matchesGenre(item, criteria.genres),
                              matchesDecade(item, criteria.decade),
                              matchesMoodTempo(item, criteria.mood, criteria.tempo))
         IN  (IF keep THEN <<item>> ELSE <<>>) \o filterItems(Tail(coll), criteria)

\* filterCollection(collection, answers)
filterCollection(coll, a) == filterItems(coll, quizToFilterCriteria(a))

\* fetchReleaseDetails' result for a response (lines 102-114)
ReleaseData(response) == [id |-> response.id]

\* recommendAlbum returned null
NoRecommendation == [null |-> TRUE]

RecIdle ==
    /\ rec_collection = <<>>
    /\ scoredItems = <<>>
    /\ rec_selectable = {}
    /\ rec_fromMap = FALSE
    /\ recommendation = NoRecommendation

\* one scoring component: the points it adds and the reasons it pushes
Component(points, reasons) == [score |-> points, reasons |-> reasons]
NoPoints == Component(0, <<>>)

\* lines 143-148: the decade component
decadeComponent(item, criteria) ==
    IF matchesDecade(item, criteria.decade)
    THEN Component(25,
            IF criteria.decade # NoDecade
            THEN <<"from your preferred decade (" \o ToString(criteria.decade.min) \o "s)">>
            ELSE <<>>)
    ELSE NoPoints

\* lines 169-178: the recency component (every item Discogs lists carries
\* a date_added)
recencyComponent(item) ==
    IF item.daysSinceAdded < 30
    THEN Component(10, <<"recently added to your collection">>)
    ELSE IF item.daysSinceAdded < 90 THEN Component(5, <<>>)
    ELSE NoPoints

\* the six components of calculateMatchScore, in the order of the code
scoreComponents(item, criteria) ==
    << IF matchesGenre(item, criteria.genres)
       THEN Component(30, <<"matches your preferred genres">>) ELSE NoPoints,
       decadeComponent(item, criteria),
       IF matchesMoodTempo(item, criteria.mood, criteria.tempo)
       THEN Component(25, <<"matches your mood and tempo preferences">>) ELSE NoPoints,
       IF matchesFormat(item, criteria.format)
       THEN Component(10, <<"matches your format preference (" \o criteria.format \o ")">>)
       ELSE NoPoints,
       IF item.rating > 0
       THEN Component(10, <<"you have rated this release">>) ELSE NoPoints,
       recencyComponent(item) >>

\* calculateMatchScore(item, criteria): score and reasons accumulate over
\* the components
calculateMatchScore(item, criteria) ==
    LET c == scoreComponents(item, criteria)
    IN  [score |-> c[1].score + c[2].score + c[3].score + c[4].score + c[5].score
                   + c[6].score,
         reasons |-> c[1].reasons \o c[2].reasons \o c[3].reasons \o c[4].reasons
                     \o c[5].reasons \o c[6].reasons]

\* lines 246-250: collection.map (releaseData is looked up again at the end)
RECURSIVE scoreAll(_, _)
scoreAll(coll, criteria) ==
    IF coll = <<>> THEN <<>>
    ELSE LET r == calculateMatchScore(Head(coll), criteria)
         IN  <<[item |-> Head(coll), score |-> r.score, reasons |-> r.reasons]>>
             \o scoreAll(Tail(coll), criteria)

\* the comparator of lines 253-260; negative: a sorts before b.  The later
\* date_added is the smaller daysSinceAdded.
compareScored(a, b) ==
    IF b.score # a.score THEN b.score - a.score
    ELSE IF b.item.rating # a.item.rating THEN b.item.rating - a.item.rating
    ELSE a.item.daysSinceAdded - b.item.daysSinceAdded

\* Array.prototype.sort with that comparator (stable)
RECURSIVE insertScored(_, _)
insertScored(x, sorted) ==
    IF sorted = <<>> THEN <<x>>
    ELSE IF compareScored(x, Head(sorted)) < 0 THEN <<x>> \o sorted
    ELSE <<Head(sorted)>> \o insertScored(x, Tail(sorted))

RECURSIVE sortScored(_)
sortScored(a) ==
    IF a = <<>> THEN <<>>
    ELSE insertScored(a[Len(a)], sortScored(SubSeq(a, 1, Len(a) - 1)))

SCORE_THRESHOLD == 5

\* a selection that only ever considers exact ties with the top score
isCloseMatch_tie(topScore, score) == topScore - score <= 0

\* line 269: topScore - item.score <= SCORE_THRESHOLD
isCloseMatch(topScore, score) == topScore - score <= SCORE_THRESHOLD

RECURSIVE closeMatches(_, _)
closeMatches(scored, topScore) ==
    IF scored = <<>> THEN <<>>
    ELSE (IF isCloseMatch(topScore, Head(scored).score) THEN <<Head(scored)>> ELSE <<>>)
         \o closeMatches(Tail(scored), topScore)

\* the ids of a collection's releases
ReleaseIdsOf(coll) == {coll[i].basic_information.id : i \in 1..Len(coll)}

\* the maps fetchMultipleReleaseDetails can return for releases of coll: an
\* entry for each id whose request succeeded, holding the release the server
\* answered GET /releases/<id> with
ReleaseDataMaps(coll) ==
    {[k \in S |-> ReleaseData([id |-> k])] : S \in SUBSET ReleaseIdsOf(coll)}

\* a minimal ReleaseData whose id is taken from another field of the item
minimalReleaseData_year(item) == [id |-> item.basic_information.year]

\* lines 279-295: the minimal ReleaseData made from the item
minimalReleaseData(item) == [id |-> item.basic_information.id]

\* releaseDataMap?.get(item.basic_information.id) || minimal release data
releaseDataFor(item, releaseDataMap) ==
    IF item.basic_information.id \in DOMAIN releaseDataMap
    THEN releaseDataMap[item.basic_information.id]
    ELSE minimalReleaseData(item)

\* lines 272-274: what selectedMatch can be.  Math.random() is any number in
\* [0, 1), so the index is any position of closeMatches.
selectable(scored, topScore) ==
    LET close == closeMatches(scored, topScore)
    IN  IF Len(close) > 1 THEN {close[i] : i \in 1..Len(close)} ELSE {scored[1]}

\* recommendAlbum(coll, answers, releaseDataMap), lines 234-303, is called
\* with one of releaseDataMaps and returns
RecommendAlbum(coll, releaseDataMaps) ==
    /\ rec_collection' = coll
    /\ scoredItems' = sortScored(scoreAll(coll, quizToFilterCriteria(answers)))
    /\ LET topScore == IF scoredItems' = <<>> THEN 0 ELSE scoredItems'[1].score
       IN  IF Len(coll) = 0 \/ topScore = 0
           THEN /\ rec_selectable' = {}
                /\ recommendation' = NoRecommendation
                /\ rec_fromMap' = FALSE
           ELSE /\ rec_selectable' = selectable(scoredItems', topScore)
                /\ \E selectedMatch \in rec_selectable' :
                   \E releaseDataMap \in releaseDataMaps :
                    /\ recommendation' =
                          [collectionItem |-> selectedMatch.item,
                           releaseData |-> releaseDataFor(selectedMatch.item, releaseDataMap),
                           matchScore |-> selectedMatch.score,
                           reasons |-> selectedMatch.reasons]
                    /\ rec_fromMap' = (selectedMatch.item.basic_information.id
                                          \in DOMAIN releaseDataMap)

\* the longest collection recommendAlbum is explored with
MaxScored == 2

\* a caller holds a collection to recommend from and a set of quiz answers
RecommendInputs ==
    /\ eng_pc = "idle"
    /\ collection \in SeqsUpTo(ItemPool, MaxScored)
    /\ answers \in AnswerSets
    /\ filtered = <<>>
    /\ eng_error = "none"
    /\ relaxations = <<>>
    /\ RecIdle

\* a direct call of recommendAlbum over the whole collection
RecommendAlbumCall ==
    /\ eng_pc = "idle"
    /\ RecommendAlbum(collection, ReleaseDataMaps(collection))
    /\ eng_pc' = "recommended"
    /\ UNCHANGED <<collection, answers, filtered, eng_error, relaxations,
                   storeVars, fcVars, fdVars, authVars, tsVars>>

EngineIdle ==
    /\ eng_pc = "idle"
    /\ collection = <<>>
    /\ answers = [mood |-> "happy", tempo |-> "medium", genres |-> <<>>,
                  decade |-> "any", format |-> "both"]
    /\ filtered = <<>>
    /\ eng_error = "none"
    /\ relaxations = <<>>
    /\ RecIdle

\* a caller holds a collection and a set of quiz answers
EngineInputs ==
    /\ eng_pc = "idle"
    /\ collection \in Collections
    /\ answers \in AnswerSets
    /\ filtered = <<>>
    /\ eng_error = "none"
    /\ relaxations = <<>>
    /\ RecIdle

\* filterCollection(collection, answers) is called and returns
FilterCollection ==
    /\ eng_pc = "idle"
    /\ filtered' = filterCollection(collection, answers)
    /\ eng_pc' = "filtered"
    /\ UNCHANGED <<collection, answers, eng_error, relaxations, recVars,
                   storeVars, fcVars, fdVars, authVars, tsVars>>

\* What line 225's noDecadeAnswers refers to.  The const is declared in the
\* block of lines 217-220 and read outside it: where const is block-scoped
\* the read throws a ReferenceError; a build that lowers const to a
\* function-scoped var reads the value the block assigned (undefined when
\* the block did not run).
ScopeOutcomes == {"ReferenceError", "var"}

\* { ...undefined, genres: [] }: every other answer is undefined
NoAnswers ==
    [mood |-> UNDEFINED, tempo |-> UNDEFINED, genres |-> <<>>,
     decade |-> UNDEFINED, format |-> UNDEFINED]

\* a broadenFilters that applies every relaxation, whatever the earlier
\* ones found
needsNextRelaxation_always(found) == TRUE

\* lines 217 and 223: filtered.length === 0
needsNextRelaxation(found) == Len(found) = 0

\* broadenFilters(coll, a), lines 208-229: whether it threw, what it
\* returned and the answers it filtered with; scope is the outcome of the
\* out-of-block read
broadenFilters(coll, a, scope) ==
    LET noFormatAnswers == [a EXCEPT !.format = "both"]
        first == filterCollection(coll, noFormatAnswers)
        relaxDecade == needsNextRelaxation(first)
        noDecadeAnswers == [noFormatAnswers EXCEPT !.decade = "any"]
        second == IF relaxDecade THEN filterCollection(coll, noDecadeAnswers)
                  ELSE first
        relaxGenre == needsNextRelaxation(second)
        noGenreAnswers == IF relaxDecade THEN [noDecadeAnswers EXCEPT !.genres = <<>>]
                          ELSE NoAnswers
        third == IF relaxGenre THEN filterCollection(coll, noGenreAnswers)
                 ELSE second
        threw == relaxGenre /\ scope = "ReferenceError"
    IN  [threw |-> threw,
         filtered |-> IF threw THEN <<>> ELSE third,
         relaxations |-> <<noFormatAnswers>>
                         \o (IF relaxDecade THEN <<noDecadeAnswers>> ELSE <<>>)
                         \o (IF relaxGenre /\ ~threw THEN <<noGenreAnswers>> ELSE <<>>)]

\* a direct call of broadenFilters(collection, answers), which returns or
\* throws
BroadenFilters(scope) ==
    /\ eng_pc = "idle"
    /\ relaxations' = broadenFilters(collection, answers, scope).relaxations
    /\ IF broadenFilters(collection, answers, scope).threw
       THEN /\ eng_pc' = "threw"
            /\ eng_error' = "ReferenceError"
            /\ UNCHANGED filtered
       ELSE /\ eng_pc' = "broadened"
            /\ filtered' = broadenFilters(collection, answers, scope).filtered
            /\ UNCHANGED eng_error
    /\ UNCHANGED <<collection, answers, recVars, storeVars, fcVars, fdVars, authVars, tsVars>>

\* filtered.slice(0, 10)
TOP_MATCHES == 10
topMatches(found) ==
    SubSeq(found, 1, IF Len(found) < TOP_MATCHES THEN Len(found) ELSE TOP_MATCHES)

\* fetchAndRecommend (part_001), lines 108-138, for the non-empty collection
\* fetchUserCollection returned: filter, broaden when nothing is left, and
\* either alert 'No Matches' (or the catch's 'Error' when broadenFilters
\* threw) or ask for the details of the top matches
FetchAndRecommendFilter(scope) ==
    LET exact == filterCollection(collection, answers)
        broadened == broadenFilters(collection, answers, scope)
    IN  /\ eng_pc = "idle"
        /\ collection # <<>>
        /\ IF exact # <<>>
           THEN /\ filtered' = exact
                /\ eng_pc' = "fetching_details"
                /\ UNCHANGED <<eng_error, relaxations>>
           ELSE IF broadened.threw
           THEN /\ eng_pc' = "error_alert"
                /\ eng_error' = "ReferenceError"
                /\ relaxations' = broadened.relaxations
                /\ UNCHANGED filtered
           ELSE /\ filtered' = broadened.filtered
                /\ relaxations' = broadened.relaxations
                /\ eng_pc' = IF broadened.filtered = <<>> THEN "no_matches"
                             ELSE "fetching_details"
                /\ UNCHANGED eng_error
        /\ UNCHANGED <<collection, answers, recVars, storeVars, fcVars, fdVars, authVars, tsVars>>

\* lines 140-165: fetchMultipleReleaseDetails returned a map for the top
\* matches; recommendAlbum runs over the filtered collection and the screen
\* shows the recommendation, or alerts when there is none
FetchAndRecommendFinish ==
    /\ eng_pc = "fetching_details"
    /\ RecommendAlbum(filtered, ReleaseDataMaps(topMatches(filtered)))
    /\ eng_pc' = IF recommendation' = NoRecommendation THEN "error_alert" ELSE "shown"
    /\ UNCHANGED <<collection, answers, filtered, eng_error, relaxations,
                   storeVars, fcVars, fdVars, authVars, tsVars>>

----------------------------------------------------------------------------
(* collectionFetcher.ts: fetchUserCollection                               *)

\* the longest run of page requests explored
MaxRequests == 3
\* the largest total-pages count a response reports
MaxPages == 3
\* per_page: 100, and the literal the continuation heuristic compares with
PER_PAGE == 100
\* the size of a short last page
ShortPage == 37

\* A listing response.  kind: "releases" (response.releases is an array),
\* "items" (the fallback shape, response.items is an array), "other"
\* (neither), "error" (the request threw) or "pending" (no answer yet).  len
\* is the array's length;
\* hasPagination says response.pagination is present, hasPages that it
\* carries pages.
Response(kind, len, hasPagination, hasPages, pages) ==
    [kind |-> kind, len |-> len, hasPagination |-> hasPagination,
     hasPages |-> hasPages, pages |-> pages]

ErrorResponse == Response("error", 0, FALSE, FALSE, 0)
PendingResponse == Response("pending", 0, FALSE, FALSE, 0)

Paginations ==
    {<<FALSE, FALSE, 0>>, <<TRUE, FALSE, 0>>} \cup {<<TRUE, TRUE, p>> : p \in 0..MaxPages}

Responses ==
    {Response("releases", n, pg[1], pg[2], pg[3]) :
        n \in {0, ShortPage, PER_PAGE}, pg \in Paginations}
    \cup {Response("items", n, pg[1], pg[2], pg[3]) :
        n \in {ShortPage, PER_PAGE}, pg \in {<<FALSE, FALSE, 0>>, <<TRUE, TRUE, MaxPages>>}}
    \cup {Response("other", 0, FALSE, FALSE, 0)}

\* the items the server delivers as page p when the page holds n of them
\* (ids in the server's order, which is not ascending)
PageItems(p, n) == [i \in 1..n |-> p * 1000 + (n - i)]

\* the items a response carries
ResponseItems(p, resp) ==
    IF resp.kind \in {"releases", "items"} THEN PageItems(p, resp.len) ELSE <<>>

\* a push that puts the page in front
pushAll_front(all, items) == items \o all

\* allItems.push(...items), lines 50 and 72
pushAll(all, items) == all \o items

\* response.pagination.pages || 1
totalPages(resp) == IF resp.hasPages /\ resp.pages # 0 THEN resp.pages ELSE 1

\* a continuation test that asks for one page more than there are
hasMoreAfterPage_extra(resp, nextPage) ==
    IF resp.hasPagination
    THEN nextPage <= totalPages(resp) + 1
    ELSE resp.len = PER_PAGE

\* a continuation test that stops one page early
hasMoreAfterPage_early(resp, nextPage) ==
    IF resp.hasPagination
    THEN nextPage < totalPages(resp)
    ELSE resp.len = PER_PAGE

\* lines 55-62: hasMore after a non-empty releases page; nextPage is page
\* after page++
hasMoreAfterPage(resp, nextPage) ==
    IF resp.hasPagination
    THEN nextPage <= totalPages(resp)
    ELSE resp.len = PER_PAGE

\* a catch that lets the loop go on
hasMoreAfterError_goOn == TRUE

\* line 87: hasMore after the catch
hasMoreAfterError == FALSE

EmptyMap == [id \in {} |-> 0]

FdIdle ==
    /\ fd_pc = "idle"
    /\ releaseIds = <<>>
    /\ onProgress = FALSE
    /\ fd_i = 0
    /\ releaseMap = EmptyMap
    /\ now = 0
    /\ fd_attempts = <<>>
    /\ progressCalls = <<>>
    /\ fd_result = EmptyMap

FcIdle ==
    /\ fc_pc = "idle"
    /\ fc_userId = UNDEFINED
    /\ fc_tokens = NoTokens
    /\ page = 1
    /\ hasMore = TRUE
    /\ allItems = <<>>
    /\ fc_log = <<>>
    /\ fc_result = <<>>

\* lines 14-24: the stored-token check, then the loop's locals
FetchUserCollectionCall(userId) ==
    /\ fc_pc = "idle"
    /\ fc_userId' = userId
    /\ fc_tokens' = getStoredTokens(userId)
    /\ IF getStoredTokens(userId) = NoTokens
       THEN fc_pc' = "thrown"
       ELSE fc_pc' = "loop"
    /\ page' = 1
    /\ hasMore' = TRUE
    /\ allItems' = <<>>
    /\ UNCHANGED <<fc_log, fc_result, storeVars, fdVars, authVars, engVars, tsVars>>

\* lines 26-38 and makeAuthenticatedRequest up to its axios call: the request
\* for the current page goes out, unless makeAuthenticatedRequest finds no
\* stored tokens and throws, which the catch of line 79 handles
FetchPageRequest ==
    /\ fc_pc = "loop"
    /\ hasMore
    /\ Len(fc_log) < MaxRequests
    /\ IF getStoredTokens(fc_userId) = NoTokens
       THEN /\ fc_log' = Append(fc_log, [page |-> page, sent |-> FALSE, resp |-> ErrorResponse])
            /\ hasMore' = hasMoreAfterError
            /\ fc_pc' = "loop"
       ELSE /\ fc_log' = Append(fc_log, [page |-> page, sent |-> TRUE, resp |-> PendingResponse])
            /\ hasMore' = hasMore
            /\ fc_pc' = "waiting"
    /\ UNCHANGED <<fc_userId, fc_tokens, page, allItems, fc_result, storeVars, fdVars, authVars, engVars, tsVars>>

\* lines 47-78: the response arrived
FetchPageResponse(resp) ==
    /\ fc_pc = "waiting"
    /\ fc_log' = [fc_log EXCEPT ![Len(fc_log)].resp = resp]
    /\ fc_pc' = "loop"
    /\ IF resp.kind = "releases"
       THEN IF resp.len > 0
            THEN /\ allItems' = pushAll(allItems, ResponseItems(page, resp))
                 /\ page' = page + 1
                 /\ hasMore' = hasMoreAfterPage(resp, page + 1)
            ELSE /\ hasMore' = FALSE
                 /\ UNCHANGED <<allItems, page>>
       ELSE IF resp.kind = "items"
            THEN /\ allItems' = pushAll(allItems, ResponseItems(page, resp))
                 /\ hasMore' = FALSE
                 /\ UNCHANGED page
            ELSE /\ hasMore' = FALSE
                 /\ UNCHANGED <<allItems, page>>
    /\ UNCHANGED <<fc_userId, fc_tokens, fc_result, storeVars, fdVars, authVars, engVars, tsVars>>

\* lines 79-88: the request threw
FetchPageError ==
    /\ fc_pc = "waiting"
    /\ fc_pc' = "loop"
    /\ fc_log' = [fc_log EXCEPT ![Len(fc_log)].resp = ErrorResponse]
    /\ hasMore' = hasMoreAfterError
    /\ UNCHANGED <<fc_userId, fc_tokens, page, allItems, fc_result, storeVars, fdVars, authVars, engVars, tsVars>>

\* lines 91-92
FetchReturn ==
    /\ fc_pc = "loop"
    /\ ~hasMore
    /\ fc_pc' = "returned"
    /\ fc_result' = allItems
    /\ UNCHANGED <<fc_userId, fc_tokens, page, hasMore, allItems, fc_log, storeVars, fdVars, authVars, engVars, tsVars>>

\* clearStoredTokens(userId), called while a fetch is under way
ClearStoredTokens(userId) ==
    /\ fc_pc \in {"loop", "waiting"}
    /\ getStoredTokens(userId) # NoTokens
    /\ StorageWrites(clearStoredTokens(userId))
    /\ UNCHANGED <<fcVars, fdVars, authVars, engVars, tsVars>>

\* the stores a fetch can start from: user A holds a token set, holds a set
\* whose secret is empty or whose username is missing, or holds none; A or
\* nobody is signed in
CollectionStores ==
    {Apply(EmptyStore, ws) :
        ws \in {<<>>,
                storeTokens(StoredSet("A"), "A"),
                storeTokens([StoredSet("A") EXCEPT !.tokenSecret = ""], "A"),
                storeTokens([StoredSet("A") EXCEPT !.username = NULL], "A")}}

InitCollection ==
    /\ isWeb \in BOOLEAN
    /\ \E st \in CollectionStores, cur \in {NULL, "A"} :
          /\ secureStore = (IF isWeb THEN EmptyStore ELSE st)
          /\ asyncStorage = [(IF isWeb THEN st ELSE EmptyStore) EXCEPT ![CURRENT_USER_KEY] = cur]
    /\ FcIdle
    /\ TsIdle
    /\ FdIdle
    /\ AuthIdle
    /\ EngineIdle

NextCollection ==
    \/ \E userId \in {"A", UNDEFINED} : FetchUserCollectionCall(userId)
    \/ FetchPageRequest
    \/ \E resp \in Responses : FetchPageResponse(resp)
    \/ FetchPageError
    \/ FetchReturn
    \/ \E userId \in {"A", UNDEFINED} : ClearStoredTokens(userId)

SpecCollection == InitCollection /\ [][NextCollection]_vars

\* the same, with the scheduling the run-time gives: code that can run does
\* run, and a request that is out is answered or fails
SpecCollectionLive ==
    /\ SpecCollection
    /\ WF_vars(FetchPageRequest)
    /\ WF_vars((\E resp \in Responses : FetchPageResponse(resp)) \/ FetchPageError)
    /\ WF_vars(FetchReturn)

----------------------------------------------------------------------------
(* the authorization flow: specification                                   *)

Init ==
    /\ isWeb \in BOOLEAN
    /\ secureStore = EmptyStore
    /\ asyncStorage = EmptyStore
    /\ FcIdle
    /\ TsIdle
    /\ FdIdle
    /\ DISCOGS_CONFIG \in Configs
    /\ FlowsIdle
    /\ EngineIdle

Next ==
    \/ \E u \in Users : SignIn(u)
    \/ SignOut
    \/ \E f \in Flows : InitiateAuth(f)
    \/ \E f \in Flows : RequestTokenError(f)
    \/ \E f \in Flows : RequestTokenMalformed(f)
    \/ \E f \in Flows : RequestTokenReceived(f)
    \/ \E f \in Flows : \E callbackUrl \in CallbackUrls(f) : HandleAuthCallback(f, callbackUrl)
    \/ \E f \in Flows : ExchangeError(f)
    \/ \E f \in Flows : \E tokenData \in ExchangeBodies(f) : ExchangeResponse(f, tokenData)
    \/ \E f \in Flows, n \in IdentityUsernames : IdentityResponse(f, n)
    \/ \E f \in Flows : IdentityError(f)

Spec == Init /\ [][Next]_vars

----------------------------------------------------------------------------
(* the authorization flow: properties                                      *)

\* attempt f returns its token set in this step
Returns(f) == flows[f].pc # "authenticated" /\ flows'[f].pc = "authenticated"

\* C6 as stated: whenever handleAuthCallback returns a token set at the end
\* of a flow started for user u, getStoredTokens(u) right after the return
\* yields that very token set, not null.
C6_Original ==
    [][\A f \in Flows :
          Returns(f) => getStoredTokens(flows[f].userId)' = flows'[f].result]_vars

\* C7: once the exchange has succeeded, a failing identity request does not
\* fail the flow: the flow returns the exchanged token and secret with the
\* exchange body's username when it carries one and "unknown" otherwise, and
\* that set is what the three keys of the flow's user hold.
C7_IdentityFailureNotFatal ==
    [][\A f \in Flows :
          (flows[f].pc = "identity" /\ flows'[f].identity = "failed") =>
             LET body == flows[f].tokenData
                 u == flows[f].storeUserId
             IN  /\ flows'[f].pc = "authenticated"
                 /\ flows'[f].result.token = body.oauth_token
                 /\ flows'[f].result.tokenSecret = body.oauth_token_secret
                 /\ flows'[f].result.username =
                       (IF body.username \in {UNDEFINED, ""} THEN "unknown" ELSE body.username)
                 /\ getItem(TokenKey(u))' = flows'[f].result.token
                 /\ getItem(TokenSecretKey(u))' = flows'[f].result.tokenSecret
                 /\ getItem(UsernameKey(u))' = flows'[f].result.username]_vars

\* C7 witness: two attempts returned after their identity request failed,
\* one with the exchange body's username and one with "unknown"; the later
\* one's set can be read back
C7_Witness ==
    \E f, g \in Flows :
        /\ flows[f].pc = "authenticated" /\ flows[f].identity = "failed"
        /\ flows[f].tokenData.username = "dj" /\ flows[f].result.username = "dj"
        /\ flows[g].pc = "authenticated" /\ flows[g].identity = "failed"
        /\ flows[g].tokenData.username = UNDEFINED /\ flows[g].result.username = "unknown"
        /\ getStoredTokens(flows[g].storeUserId) = flows[g].result

\* C8 as stated: a leg that fails is not retried within the attempt (one
\* request-token request and one exchange request per attempt at most), and
\* after a failed attempt no attempt reaches Authenticated through a
\* callback handled before a new request-token request was made.
C8_Original ==
    \A f \in Flows :
        /\ flows[f].nRequestToken <= 1
        /\ flows[f].nExchange <= 1
        /\ flows[f].pc = "authenticated" => ~flows[f].resumed

\* C9 as stated: when a user who holds a stored token set signs out, no
\* token set is stored under that user's id afterwards.
C9_Original ==
    [][\A u \in Users :
          (/\ asyncStorage[CURRENT_USER_KEY] = u
           /\ asyncStorage'[CURRENT_USER_KEY] = NULL
           /\ getStoredTokens(u) # NoTokens)
          => getStoredTokens(u)' = NoTokens]_vars

\* the URL's query string has no pair for the key
Lacks(url, key) == \A i \in 1..Len(url.query) : url.query[i][1] # key

\* the keys under which token sets are stored
TokenSetKeys ==
    {TokenKey(u) : u \in Users} \cup {TokenSecretKey(u) : u \in Users}
    \cup {UsernameKey(u) : u \in Users}

\* C21: handleAuthCallback on a callback URL whose query string lacks
\* oauth_token or oauth_verifier fails with an invalid-callback error and
\* issues no exchange request; the stored request token, the stored
\* request-token secret and every user's token set are as they were.
C21_InvalidCallbackTouchesNothing ==
    [][\A f \in Flows :
          (/\ flows[f].pc = "awaiting"
           /\ flows'[f].pc # "awaiting"
           /\ \/ Lacks(flows'[f].callbackUrl, "oauth_token")
              \/ Lacks(flows'[f].callbackUrl, "oauth_verifier"))
          => /\ flows'[f].pc = "failed"
             /\ flows'[f].error \in {"Invalid callback URL", "Invalid callback URL format"}
             /\ flows'[f].nExchange = flows[f].nExchange
             /\ getItem(REQUEST_TOKEN_KEY)' = getItem(REQUEST_TOKEN_KEY)
             /\ getItem(REQUEST_TOKEN_SECRET_KEY)' = getItem(REQUEST_TOKEN_SECRET_KEY)
             /\ \A key \in TokenSetKeys : getItem(key)' = getItem(key)
             /\ \A u \in Users : getStoredTokens(u)' = getStoredTokens(u)]_vars

\* C21 witness: user A holds a token set from an earlier attempt; the
\* callback of a later attempt came without oauth_token and failed, with
\* that attempt's request token and secret still stored
C21_Witness ==
    \E f \in Flows :
        /\ flows[f].pc = "failed"
        /\ flows[f].error = "Invalid callback URL"
        /\ Lacks(flows[f].callbackUrl, "oauth_token")
        /\ flows[f].nExchange = 0
        /\ getItem(REQUEST_TOKEN_KEY) = RequestTokenNames[f]
        /\ getItem(REQUEST_TOKEN_SECRET_KEY) = RequestSecretNames[f]
        /\ \E u \in Users : getStoredTokens(u) # NoTokens

\* attempt f sends its exchange request in this step
SendsExchange(f) == flows[f].pc = "awaiting" /\ flows'[f].pc = "exchanging"

\* the attempt initiateAuth was called for last (attempts start in order)
LatestStarted == CHOOSE f \in Flows :
    /\ flows[f].pc # "idle"
    /\ \A g \in Flows : flows[g].pc # "idle" => g <= f

\* C24 as stated: every exchange request handleAuthCallback sends is signed
\* with the request-token secret obtained by the most recently started
\* initiateAuth call, never with one an earlier attempt stored.
C24_Original ==
    [][\A f \in Flows :
          SendsExchange(f) =>
             flows'[f].requestTokenSecret = RequestSecretNames[LatestStarted]]_vars

\* C25 as stated: in every exchange request the oauth_token sent (from the
\* callback URL) and the secret that signs it (from storage) come from one
\* request-token response; a callback that names another request token than
\* the stored one leads to no exchange request.
C25_Original ==
    [][\A f \in Flows :
          SendsExchange(f) =>
             /\ flows'[f].oauthToken = getItem(REQUEST_TOKEN_KEY)
             /\ \E g \in Flows : /\ flows'[f].oauthToken = RequestTokenNames[g]
                                 /\ flows'[f].requestTokenSecret = RequestSecretNames[g]]_vars

\* C26 as stated: with attempts of two users interleaved, the token set a
\* callback yields is stored under the user id that was passed to the
\* initiateAuth call which obtained the request token the callback names,
\* and under no other user id.
C26_Original ==
    [][\A f \in Flows :
          Returns(f) =>
             /\ flows'[f].storeUserId = flows[f].userId
             /\ getItem(TokenKey(flows[f].userId))' = flows'[f].result.token
             /\ \A v \in Users \ {flows[f].userId} :
                   /\ getItem(TokenKey(v))' = getItem(TokenKey(v))
                   /\ getItem(TokenSecretKey(v))' = getItem(TokenSecretKey(v))
                   /\ getItem(UsernameKey(v))' = getItem(UsernameKey(v))]_vars

\* attempt f's exchange fails in this step
ExchangeFails(f) == flows[f].pc = "exchanging" /\ flows'[f].pc = "failed"

\* C28: when the exchange request of handleAuthCallback fails no token set
\* is written, so every user's stored token set, one stored earlier for the
\* same user included, is as it was; the request token and secret the
\* callback found in the store were removed before the request went out.
C28_FailedExchangeWritesNoTokens ==
    [][\A f \in Flows :
          /\ SendsExchange(f) =>
                /\ getItem(REQUEST_TOKEN_KEY)' = NULL
                /\ getItem(REQUEST_TOKEN_SECRET_KEY)' = NULL
          /\ ExchangeFails(f) =>
                /\ flows'[f].error = "Failed to exchange tokens"
                /\ \A key \in TokenSetKeys : getItem(key)' = getItem(key)
                /\ \A u \in Users : getStoredTokens(u)' = getStoredTokens(u)
                /\ getItem(REQUEST_TOKEN_SECRET_KEY)' # flows[f].requestTokenSecret
                /\ getItem(REQUEST_TOKEN_KEY)' = getItem(REQUEST_TOKEN_KEY)
                /\ getItem(REQUEST_TOKEN_SECRET_KEY)' = getItem(REQUEST_TOKEN_SECRET_KEY)]_vars

\* C28 witness: user A holds the token set of a first attempt; a second
\* attempt for A failed in its exchange, the set is still the first one's
\* and no request token is stored
C28_Witness ==
    \E f, g \in Flows :
        /\ flows[f].pc = "authenticated"
        /\ flows[f].storeUserId = "A"
        /\ flows[g].pc = "failed"
        /\ flows[g].userId = "A"
        /\ flows[g].nExchange = 1
        /\ flows[g].error = "Failed to exchange tokens"
        /\ getStoredTokens("A") = flows[f].result
        /\ getStoredTokens("A") # NoTokens
        /\ getItem(REQUEST_TOKEN_KEY) = NULL
        /\ getItem(REQUEST_TOKEN_SECRET_KEY) = NULL

\* the consumer key or the consumer secret is missing or a placeholder
Misconfigured ==
    \/ DISCOGS_CONFIG.consumerKey \in {"", UNDEFINED, "YOUR_CONSUMER_KEY"}
    \/ DISCOGS_CONFIG.consumerSecret \in {"", UNDEFINED, "YOUR_CONSUMER_SECRET"}

ConfigurationErrors ==
    {"Discogs Consumer Key is not configured", "Discogs Consumer Secret is not configured"}

\* C20: with the consumer key or the consumer secret missing or left at its
\* placeholder, initiateAuth fails with a configuration error before any
\* network request is issued, and neither a request token nor a
\* request-token secret is stored.
C20_MisconfiguredFailsEarly ==
    Misconfigured =>
        /\ \A f \in Flows :
              /\ flows[f].pc \in {"idle", "failed"}
              /\ flows[f].pc = "failed" => flows[f].error \in ConfigurationErrors
              /\ flows[f].nRequestToken = 0
              /\ flows[f].nExchange = 0
        /\ getItem(REQUEST_TOKEN_KEY) = NULL
        /\ getItem(REQUEST_TOKEN_SECRET_KEY) = NULL

\* C20 witness: a build with a key but the placeholder secret; initiateAuth
\* for user A parked the user id and failed on the secret
C20_Witness ==
    /\ DISCOGS_CONFIG.consumerKey = "ck"
    /\ DISCOGS_CONFIG.consumerSecret = "YOUR_CONSUMER_SECRET"
    /\ flows[1].pc = "failed"
    /\ flows[1].userId = "A"
    /\ flows[1].error = "Discogs Consumer Secret is not configured"
    /\ flows[1].nRequestToken = 0
    /\ getItem(OAUTH_USER_ID_KEY) = "A"
    /\ getItem(REQUEST_TOKEN_KEY) = NULL

----------------------------------------------------------------------------
(* fetchUserCollection: properties                                         *)

\* the items of the first n loop iterations, in order
RECURSIVE ConcatPages(_)
ConcatPages(n) ==
    IF n = 0 THEN <<>>
    ELSE ConcatPages(n - 1) \o ResponseItems(fc_log[n].page, fc_log[n].resp)

\* the last loop iteration has been answered and the loop test is next
PageAnswered ==
    /\ fc_pc = "loop"
    /\ fc_log # <<>>
    /\ fc_log[Len(fc_log)].resp.kind \in {"releases", "items", "other"}

LastEntry == fc_log[Len(fc_log)]

ClaimedContinuation(e) ==
    \/ e.resp.hasPagination /\ e.resp.hasPages /\ e.page + 1 <= e.resp.pages
    \/ ~e.resp.hasPagination /\ e.resp.len = PER_PAGE

\* C2 as stated: after every successfully fetched page the next page is
\* requested iff (a) or (b).
C2_Original ==
    PageAnswered => (hasMore <=> ClaimedContinuation(LastEntry))

\* C2 amended: after every successfully fetched page the next page is
\* requested iff the response's releases array is non-empty and (a) or (b)
\* holds; an empty releases array, or a response without one (the fallback
\* items shape included), ends pagination.
C2_Continuation ==
    PageAnswered =>
        (hasMore <=> /\ LastEntry.resp.kind = "releases"
                     /\ LastEntry.resp.len > 0
                     /\ ClaimedContinuation(LastEntry))

\* C2 witness: pages of 100, 100 and 37 items without pagination data; the
\* call returned after the third request
C2_Witness ==
    /\ fc_pc = "returned"
    /\ Len(fc_log) = 3
    /\ \A k \in 1..3 : fc_log[k].resp.kind = "releases" /\ ~fc_log[k].resp.hasPagination
    /\ <<fc_log[1].resp.len, fc_log[2].resp.len, fc_log[3].resp.len>>
          = <<PER_PAGE, PER_PAGE, ShortPage>>
    /\ Len(fc_result) = 2 * PER_PAGE + ShortPage

\* the user the call is for (the argument, else the signed-in user) has a
\* token, a token secret and a username in the store
HasCompleteTokenSet(userId) ==
    LET u == IF userId \in Users THEN userId ELSE asyncStorage[CURRENT_USER_KEY]
        stored == IF isWeb THEN asyncStorage ELSE secureStore
    IN  /\ u \in Users
        /\ \A key \in {TokenKey(u), TokenSecretKey(u), UsernameKey(u)} :
              stored[key] \notin {NULL, UNDEFINED, ""}

\* C19: fetchUserCollection for a user without a complete stored token set
\* (token, token secret and username) fails with the not-authenticated
\* error, and no page request is issued, then or later.
C19_NoTokensNoRequest ==
    /\ [][(fc_pc = "idle" /\ fc_pc' # "idle" /\ ~HasCompleteTokenSet(fc_userId'))
            => (fc_pc' = "thrown" /\ fc_log' = <<>>)]_vars
    /\ [][fc_pc = "thrown" => (fc_pc' = "thrown" /\ fc_log' = <<>>)]_vars

\* C19 witness: user A, whose stored set has a token and a username but an
\* empty secret, called fetchUserCollection, which threw before any request
C19_Witness ==
    /\ fc_pc = "thrown"
    /\ fc_userId = "A"
    /\ ~Falsy(getItem(TokenKey("A")))
    /\ ~Falsy(getItem(UsernameKey("A")))
    /\ getItem(TokenSecretKey("A")) = ""
    /\ fc_log = <<>>

\* what the server delivered in answer to the n-th request, in its order
Delivered(n) ==
    IF fc_log[n].resp.kind \in {"releases", "items"}
    THEN [i \in 1..fc_log[n].resp.len |-> fc_log[n].page * 1000 + (fc_log[n].resp.len - i)]
    ELSE <<>>

\* the deliveries of the first n requests, one after the other
RECURSIVE DeliveredUpTo(_)
DeliveredUpTo(n) == IF n = 0 THEN <<>> ELSE DeliveredUpTo(n - 1) \o Delivered(n)

\* C23: what fetchUserCollection returns is the concatenation of the item
\* lists of the fetched pages, in the order the pages were requested and
\* received, each page's items in the server's order: nothing is reordered,
\* dropped or duplicated.
C23_ServerOrderKept ==
    /\ fc_pc = "loop" => allItems = DeliveredUpTo(Len(fc_log))
    /\ fc_pc = "returned" =>
          /\ fc_result = DeliveredUpTo(Len(fc_log))
          /\ Cardinality({fc_result[i] : i \in 1..Len(fc_result)}) = Len(fc_result)

\* C23 witness: pages of 100, 100 and 37 items were fetched and the call
\* returned the 237 items, page 1's first, each page in the server's order
C23_Witness ==
    /\ fc_pc = "returned"
    /\ Len(fc_log) = 3
    /\ <<fc_log[1].resp.len, fc_log[2].resp.len, fc_log[3].resp.len>>
          = <<PER_PAGE, PER_PAGE, ShortPage>>
    /\ fc_result = PageItems(1, PER_PAGE) \o PageItems(2, PER_PAGE) \o PageItems(3, ShortPage)
    /\ fc_result[1] > fc_result[2]
    /\ fc_result[PER_PAGE] < fc_result[PER_PAGE + 1]

\* the n-th request has been answered with a page that reports P pages
ReportsTotal(n, P) ==
    /\ fc_log[n].resp.kind \in {"releases", "items"}
    /\ fc_log[n].resp.hasPagination
    /\ fc_log[n].resp.hasPages
    /\ fc_log[n].resp.pages = P

Unanswered(n) == fc_log[n].resp = PendingResponse

\* every response so far reports P pages
AllReportTotal(P) ==
    \A n \in 1..Len(fc_log) : Unanswered(n) \/ ReportsTotal(n, P)

\* some response came without a page count, or two counts differ
NoCommonTotal == \A P \in 1..MaxPages : ~AllReportTotal(P)

\* C29, the requests: the n-th request is for page n, a request goes out
\* only when the one before has been answered, at most P requests go out
\* while every response reports P pages, and an empty page is the last one
\* whatever count it reports.
C29_Requests ==
    /\ \A n \in 1..Len(fc_log) :
          /\ fc_log[n].page = n
          /\ Unanswered(n) => (n = Len(fc_log) /\ fc_pc = "waiting")
          /\ (fc_log[n].resp.kind = "releases" /\ fc_log[n].resp.len = 0)
                => (n = Len(fc_log) /\ ~hasMore)
    /\ fc_pc = "waiting" => (fc_log # <<>> /\ Unanswered(Len(fc_log)))
    /\ \A P \in 1..MaxPages : AllReportTotal(P) => Len(fc_log) <= P

\* C29: fetchUserCollection requests pages 1, 2, 3, ... one at a time,
\* none twice and none skipped, and it terminates: with every response
\* reporting the same page count P it sends at most P requests and returns,
\* and an empty page ends pagination before the count is reached.
C29_ConsecutivePagesAndTermination ==
    /\ []C29_Requests
    /\ (fc_pc = "loop") ~> (fc_pc = "returned" \/ NoCommonTotal)

\* C29 witness: page 1 came full and reported 3 pages, page 2 came empty
\* and reported 3 pages; the call returned page 1's items after 2 requests
C29_Witness ==
    /\ fc_pc = "returned"
    /\ Len(fc_log) = 2
    /\ fc_log[1].resp = Response("releases", PER_PAGE, TRUE, TRUE, 3)
    /\ fc_log[2].resp = Response("releases", 0, TRUE, TRUE, 3)
    /\ fc_log[2].page = 2
    /\ Len(fc_result) = PER_PAGE

----------------------------------------------------------------------------
(* collectionFetcher.ts: fetchReleaseDetails, fetchMultipleReleaseDetails  *)

\* the longest releaseIds list explored
MaxIds == 3
\* the release ids a list is drawn from (a list may name an id twice)
ReleaseIdPool == {1, 2}
\* await delay(1100)
DELAY_MS == 1100
\* the time a request takes to succeed or fail: at once, or after this long
LatencyMs == 300
Latencies == {0, LatencyMs}

IdLists == UNION {[1..n -> ReleaseIdPool] : n \in 0..MaxIds}

\* a detail-fetch catch that gives up on the batch
pcAfterDetailError_abort == "returned"

\* lines 150-153: where the loop stands after the catch
pcAfterDetailError == "loop"

\* lines 124-135
FetchMultipleReleaseDetailsCall(ids, cb) ==
    /\ fd_pc = "idle"
    /\ releaseIds' = ids
    /\ onProgress' = cb
    /\ fd_i' = 0
    /\ releaseMap' = EmptyMap
    /\ fd_pc' = "loop"
    /\ UNCHANGED <<now, fd_attempts, progressCalls, fd_result, storeVars, fcVars, authVars, engVars, tsVars>>

\* lines 136-139 and makeAuthenticatedRequest up to its axios call: the
\* request for releaseIds[i] goes out, unless makeAuthenticatedRequest finds
\* no stored tokens and throws, which the catch of line 150 handles
DetailRequest ==
    /\ fd_pc = "loop"
    /\ fd_i < Len(releaseIds)
    /\ IF getStoredTokens("A") = NoTokens
       THEN /\ fd_attempts' = Append(fd_attempts,
                  [id |-> releaseIds[fd_i + 1], sent |-> FALSE, at |-> now, outcome |-> "failed"])
            /\ fd_pc' = pcAfterDetailError
            /\ fd_i' = fd_i + 1
       ELSE /\ fd_attempts' = Append(fd_attempts,
                  [id |-> releaseIds[fd_i + 1], sent |-> TRUE, at |-> now, outcome |-> "pending"])
            /\ fd_pc' = "waiting"
            /\ fd_i' = fd_i
    /\ UNCHANGED <<releaseIds, onProgress, releaseMap, now, progressCalls, fd_result,
                   storeVars, fcVars, authVars, engVars, tsVars>>

\* lines 139-149: the release arrived after lat ms
DetailResponse(lat) ==
    /\ fd_pc = "waiting"
    /\ now' = now + lat
    /\ fd_attempts' = [fd_attempts EXCEPT ![Len(fd_attempts)].outcome = "ok"]
    /\ releaseMap' = (releaseIds[fd_i + 1] :> ReleaseData([id |-> releaseIds[fd_i + 1]]))
                        @@ releaseMap
    /\ progressCalls' = IF onProgress
                        THEN Append(progressCalls, <<fd_i + 1, Len(releaseIds)>>)
                        ELSE progressCalls
    /\ IF fd_i < Len(releaseIds) - 1
       THEN fd_pc' = "delay" /\ fd_i' = fd_i
       ELSE fd_pc' = "loop" /\ fd_i' = fd_i + 1
    /\ UNCHANGED <<releaseIds, onProgress, fd_result, storeVars, fcVars, authVars, engVars, tsVars>>

\* line 148: the timer fired, no sooner than asked for
Delay(late) ==
    /\ fd_pc = "delay"
    /\ now' = now + DELAY_MS + late
    /\ fd_pc' = "loop"
    /\ fd_i' = fd_i + 1
    /\ UNCHANGED <<releaseIds, onProgress, releaseMap, fd_attempts, progressCalls,
                   fd_result, storeVars, fcVars, authVars, engVars, tsVars>>

\* lines 115-118 and 150-153: the request threw after lat ms
DetailError(lat) ==
    /\ fd_pc = "waiting"
    /\ now' = now + lat
    /\ fd_attempts' = [fd_attempts EXCEPT ![Len(fd_attempts)].outcome = "failed"]
    /\ fd_pc' = pcAfterDetailError
    /\ fd_i' = fd_i + 1
    /\ UNCHANGED <<releaseIds, onProgress, releaseMap, progressCalls, fd_result,
                   storeVars, fcVars, authVars, engVars, tsVars>>

\* line 156
DetailReturn ==
    /\ fd_pc = "loop"
    /\ fd_i >= Len(releaseIds)
    /\ fd_pc' = "returned"
    /\ fd_result' = releaseMap
    /\ UNCHANGED <<releaseIds, onProgress, fd_i, releaseMap, now, fd_attempts,
                   progressCalls, storeVars, fcVars, authVars, engVars, tsVars>>

InitDetails ==
    /\ isWeb \in BOOLEAN
    /\ \E st \in {EmptyStore, Apply(EmptyStore, storeTokens(StoredSet("A"), "A"))} :
          /\ secureStore = (IF isWeb THEN EmptyStore ELSE st)
          /\ asyncStorage = (IF isWeb THEN st ELSE EmptyStore)
    /\ FcIdle
    /\ TsIdle
    /\ FdIdle
    /\ AuthIdle
    /\ EngineIdle

NextDetails ==
    \/ \E ids \in IdLists, cb \in BOOLEAN : FetchMultipleReleaseDetailsCall(ids, cb)
    \/ DetailRequest
    \/ \E lat \in Latencies : DetailResponse(lat)
    \/ \E late \in Latencies : Delay(late)
    \/ \E lat \in Latencies : DetailError(lat)
    \/ DetailReturn

SpecDetails == InitDetails /\ [][NextDetails]_vars

----------------------------------------------------------------------------
(* fetchMultipleReleaseDetails: properties                                 *)

\* the loop iterations that are over
AttemptsMade == {k \in 1..Len(fd_attempts) : fd_attempts[k].outcome # "pending"}

\* C3 as stated: onProgress is invoked once after every attempt, failed or
\* not: as many calls as attempts made, the k-th reporting <<k, n>>, so that
\* the counts never decrease and the last call of a returned batch of n ids
\* reports <<n, n>>.
C3_Original ==
    onProgress =>
        /\ Len(progressCalls) = Cardinality(AttemptsMade)
        /\ \A k \in 1..Len(progressCalls) : progressCalls[k] = <<k, Len(releaseIds)>>
        /\ (fd_pc = "returned" /\ releaseIds # <<>>) =>
              /\ Len(progressCalls) = Len(releaseIds)
              /\ progressCalls[Len(progressCalls)] = <<Len(releaseIds), Len(releaseIds)>>

\* the requests that went out, in order
SentAttempts == SelectSeq(fd_attempts, LAMBDA a : a.sent)

\* C4 as stated: any two consecutive release-detail requests of one call
\* are at least 1.1 s apart, whether the earlier one succeeded or failed.
C4_Original ==
    \A k \in 2..Len(SentAttempts) :
        SentAttempts[k].at - SentAttempts[k - 1].at >= DELAY_MS

\* C5: a failed id never aborts the batch: the call does not throw, the
\* attempts are the ids of the list in list order, one attempt per entry and
\* one at a time, the map holds exactly the ids with a successful attempt,
\* and the call returns that map once every entry was attempted.
C5_FailureIsolated ==
    /\ fd_pc # "thrown"
    /\ Len(fd_attempts) <= Len(releaseIds)
    /\ \A k \in 1..Len(fd_attempts) : fd_attempts[k].id = releaseIds[k]
    /\ \A k \in 1..Len(fd_attempts) :
          fd_attempts[k].outcome = "pending" => (k = Len(fd_attempts) /\ fd_pc = "waiting")
    /\ DOMAIN releaseMap = {fd_attempts[k].id : k \in {j \in AttemptsMade : fd_attempts[j].outcome = "ok"}}
    /\ fd_pc = "returned" =>
          /\ Len(fd_attempts) = Len(releaseIds)
          /\ AttemptsMade = 1..Len(releaseIds)
          /\ fd_result = releaseMap

\* C5 witness: a batch of three ids returned after its second attempt
\* failed and its third succeeded
C5_Witness ==
    /\ fd_pc = "returned"
    /\ Len(releaseIds) = 3
    /\ fd_attempts[1].outcome = "ok"
    /\ fd_attempts[2].outcome = "failed" /\ fd_attempts[2].sent
    /\ fd_attempts[3].outcome = "ok"
    /\ releaseIds[2] \notin DOMAIN fd_result
    /\ releaseIds[3] \in DOMAIN fd_result

----------------------------------------------------------------------------
(* The engine on its own                                                   *)

InitEngine ==
    /\ isWeb = FALSE
    /\ secureStore = EmptyStore
    /\ asyncStorage = EmptyStore
    /\ FcIdle
    /\ TsIdle
    /\ FdIdle
    /\ AuthIdle
    /\ EngineInputs

NextEngine ==
    \/ FilterCollection
    \/ \E scope \in ScopeOutcomes : BroadenFilters(scope)

SpecEngine == InitEngine /\ [][NextEngine]_vars

----------------------------------------------------------------------------
(* recommendAlbum, called directly and at the end of fetchAndRecommend      *)

InitRecommend ==
    /\ isWeb = FALSE
    /\ secureStore = EmptyStore
    /\ asyncStorage = EmptyStore
    /\ FcIdle
    /\ TsIdle
    /\ FdIdle
    /\ AuthIdle
    /\ RecommendInputs

NextRecommend ==
    \/ RecommendAlbumCall
    \/ \E scope \in ScopeOutcomes : FetchAndRecommendFilter(scope)
    \/ FetchAndRecommendFinish

SpecRecommend == InitRecommend /\ [][NextRecommend]_vars

----------------------------------------------------------------------------
(* filterCollection                                                        *)

FormatMatches(item) == matchesFormat(item, quizToFilterCriteria(answers).format)
GenreMatches(item) == matchesGenre(item, quizToFilterCriteria(answers).genres)
DecadeMatches(item) == matchesDecade(item, quizToFilterCriteria(answers).decade)
MoodTempoMatches(item) ==
    matchesMoodTempo(item, quizToFilterCriteria(answers).mood,
                     quizToFilterCriteria(answers).tempo)

\* the positions of the collection the claim has retained
KeptPositions ==
    {i \in 1..Len(collection) :
        /\ FormatMatches(collection[i])
        /\ \/ GenreMatches(collection[i])
           \/ DecadeMatches(collection[i])
           \/ MoodTempoMatches(collection[i])}

\* the k-th smallest member of a set of positions
KthPosition(S, k) == CHOOSE i \in S : Cardinality({j \in S : j < i}) = k - 1

----------------------------------------------------------------------------
(* broadenFilters                                                          *)

\* the answers of the three relaxations, and what each one retains
FormatDropped == [answers EXCEPT !.format = "both"]
DecadeDropped == [answers EXCEPT !.format = "both", !.decade = "any"]
GenreDropped == [answers EXCEPT !.format = "both", !.decade = "any", !.genres = <<>>]

BroadenCalled == eng_pc \in {"broadened", "threw"}

\* C11: broadenFilters relaxes in the order format, decade, genre and returns
\* what the first relaxation with a non-empty result retains, applying no
\* later relaxation: when dropping the format alone retains something, the
\* result is filterCollection with format 'both' and the original decade and
\* genres, and that is the only filtering done.
C11_FirstNonEmptyRelaxation ==
    BroadenCalled =>
        LET r1 == filterCollection(collection, FormatDropped)
            r2 == filterCollection(collection, DecadeDropped)
            r3 == filterCollection(collection, GenreDropped)
        IN  /\ r1 # <<>> =>
                  /\ eng_pc = "broadened"
                  /\ filtered = r1
                  /\ relaxations = <<FormatDropped>>
            /\ (r1 = <<>> /\ r2 # <<>>) =>
                  /\ eng_pc = "broadened"
                  /\ filtered = r2
                  /\ relaxations = <<FormatDropped, DecadeDropped>>
            /\ (r1 = <<>> /\ r2 = <<>> /\ r3 # <<>>) =>
                  /\ eng_pc = "broadened"
                  /\ filtered = r3
                  /\ relaxations = <<FormatDropped, DecadeDropped, GenreDropped>>

\* a collection none of whose items has the wanted format, one of which
\* matches the decade and a genre: dropping the format returns that item
C11_Witness ==
    /\ eng_pc = "broadened"
    /\ answers.format # "both" /\ answers.decade # "any" /\ answers.genres # <<>>
    /\ Len(collection) >= 2
    /\ \A i \in 1..Len(collection) : ~FormatMatches(collection[i])
    /\ Len(filtered) = 1
    /\ GenreMatches(filtered[1]) /\ DecadeMatches(filtered[1])
    /\ relaxations = <<FormatDropped>>

\* C12: when no relaxation retains an item, broadenFilters returns the empty
\* sequence and throws nothing.
C12_Original ==
    (/\ BroadenCalled
     /\ filterCollection(collection, FormatDropped) = <<>>
     /\ filterCollection(collection, DecadeDropped) = <<>>
     /\ filterCollection(collection, GenreDropped) = <<>>)
    => (eng_pc = "broadened" /\ filtered = <<>> /\ eng_error = "none")

----------------------------------------------------------------------------
(* calculateMatchScore and recommendAlbum                                  *)

RecommendCalled == eng_pc \in {"recommended", "shown", "error_alert"} /\ eng_error = "none"

\* the decade answer names a decade and the item's year lies in it
InSelectedDecade(item) ==
    /\ answers.decade # "any"
    /\ item.basic_information.year >= decadeMap[answers.decade].min
    /\ item.basic_information.year <= decadeMap[answers.decade].max

\* the score the claim gives an item
ClaimedScore(item) ==
    (IF GenreMatches(item) THEN 30 ELSE 0)
    + (IF InSelectedDecade(item) THEN 25 ELSE 0)
    + (IF MoodTempoMatches(item) THEN 25 ELSE 0)
    + (IF FormatMatches(item) THEN 10 ELSE 0)
    + (IF item.rating > 0 THEN 10 ELSE 0)
    + (IF item.daysSinceAdded < 30 THEN 10 ELSE IF item.daysSinceAdded < 90 THEN 5 ELSE 0)

\* C13: the score of an item is genre 30 + decade 25 + mood/tempo 25 +
\* format 10 + rated 10 + recency 10/5/0, where the decade points are added
\* only when a decade is selected and the item's year lies in it ('any'
\* contributes 0).
C13_Original ==
    RecommendCalled =>
        \A i \in 1..Len(scoredItems) :
            scoredItems[i].score = ClaimedScore(scoredItems[i].item)

\* C14: the matchScore of every Recommendation recommendAlbum returns lies
\* in 0..100.
C14_Original ==
    (RecommendCalled /\ recommendation # NoRecommendation) =>
        (recommendation.matchScore >= 0 /\ recommendation.matchScore <= 100)

\* the scoring components that added points for an item
Contributing(item) ==
    {k \in 1..6 : scoreComponents(item, quizToFilterCriteria(answers))[k].score > 0}

\* C15: the reasons of an item hold exactly one entry per scoring component
\* that added points, so they are non-empty whenever the score is greater
\* than 0 and six when all six components added points.
C15_Original ==
    RecommendCalled =>
        \A i \in 1..Len(scoredItems) :
            /\ Len(scoredItems[i].reasons) = Cardinality(Contributing(scoredItems[i].item))
            /\ scoredItems[i].score > 0 => scoredItems[i].reasons # <<>>

\* the score calculateMatchScore gives an item under the current answers
ScoreOf(item) == calculateMatchScore(item, quizToFilterCriteria(answers)).score

\* the scores of a collection's items, position by position
RECURSIVE ScoresOf(_)
ScoresOf(coll) ==
    IF coll = <<>> THEN <<>> ELSE <<ScoreOf(Head(coll))>> \o ScoresOf(Tail(coll))

\* the highest of a non-empty sequence of scores
RECURSIVE TopOf(_)
TopOf(scores) ==
    IF Len(scores) = 1 THEN scores[1]
    ELSE LET rest == TopOf(Tail(scores))
         IN  IF scores[1] >= rest THEN scores[1] ELSE rest

\* the items of coll whose score lies within 5 points of top
WithinFive(coll, scores, top) ==
    {coll[i] : i \in {j \in 1..Len(coll) : top - scores[j] <= 5}}

\* what the claim says of a call over coll, whose items score scores, the
\* highest of them top
OutcomeAsClaimed(coll, scores, top) ==
    IF top = 0
    THEN recommendation = NoRecommendation
    ELSE /\ recommendation # NoRecommendation
         /\ recommendation.collectionItem \in WithinFive(coll, scores, top)
         /\ \E i \in 1..Len(coll) : /\ coll[i] = recommendation.collectionItem
                                     /\ scores[i] = recommendation.matchScore
         /\ {e.item : e \in rec_selectable} = WithinFive(coll, scores, top)

\* C16: over a non-empty collection recommendAlbum returns null exactly when
\* the top score is 0; otherwise it returns an item that scores within 5
\* points of the top score, with that item's score, and the items the
\* selection is drawn from are exactly the items within 5 points of the top
\* score (the only one when there is just one).  The rating and date-added
\* sort keys admit and exclude nothing.
C16_CloseMatchesAreTheOutcomes ==
    (RecommendCalled /\ rec_collection # <<>>) =>
        OutcomeAsClaimed(rec_collection, ScoresOf(rec_collection),
                         TopOf(ScoresOf(rec_collection)))

\* two different releases score 5 points apart and the call returned the
\* lower one
C16_Witness ==
    /\ eng_pc = "recommended"
    /\ Len(scoredItems) = 2
    /\ scoredItems[1].item # scoredItems[2].item
    /\ scoredItems[1].score - scoredItems[2].score = 5
    /\ recommendation # NoRecommendation
    /\ recommendation.collectionItem = scoredItems[2].item

----------------------------------------------------------------------------
(* fetchAndRecommend                                                       *)

PipelineEnded == eng_pc \in {"no_matches", "error_alert", "shown"}

\* C17: for a non-empty collection and any quiz answers the pipeline
\* (filterCollection, broadenFilters when that leaves nothing, recommendAlbum
\* over what is left) ends with a recommendation shown: never with the
\* 'No Matches' alert and never with a null recommendation.
C17_Original ==
    (PipelineEnded /\ collection # <<>>) =>
        (eng_pc = "shown" /\ recommendation # NoRecommendation)

----------------------------------------------------------------------------
(* the Recommendation record                                               *)

Recommended == RecommendCalled /\ recommendation # NoRecommendation

C18_WitnessMinimal ==
    /\ Recommended
    /\ ~rec_fromMap
    /\ recommendation.releaseData.id = recommendation.collectionItem.basic_information.id

----------------------------------------------------------------------------
(* the token store on its own                                              *)

InitTokenStore ==
    /\ isWeb \in BOOLEAN
    /\ secureStore = EmptyStore
    /\ \E cur \in Users \cup {NULL} :
          asyncStorage = [EmptyStore EXCEPT ![CURRENT_USER_KEY] = cur]
    /\ FcIdle
    /\ TsIdle
    /\ FdIdle
    /\ AuthIdle
    /\ EngineIdle

NextTokenStore ==
    \/ \E userId \in Users \cup {UNDEFINED} :
          \E tokens \in TokenSetsFor(IF userId \in Users THEN userId
                                     ELSE asyncStorage[CURRENT_USER_KEY]) :
             StoreTokensBegin(tokens, userId)
    \/ \E userId \in Users \cup {UNDEFINED} : ClearStoredTokensBegin(userId)
    \/ TokenStoreSetItem
    \/ \E userId \in Users \cup {UNDEFINED} : GetStoredTokensBegin(userId)
    \/ GetStoredTokensGetItem

SpecTokenStore == InitTokenStore /\ [][NextTokenStore]_vars

\* the values passed to storeTokens for user u, field by field
GivenFields(u, field) == {t[field] : t \in ts_given[u]}

\* C22: storeTokens(t, u) and clearStoredTokens(u) change entries of user u
\* only, so getStoredTokens(v) is the same before and after for every other
\* user v; and what getStoredTokens(u) returns holds no value that was
\* stored for another user.
C22_NoLeakAcrossUsers ==
    /\ [][storeVars' # storeVars =>
            /\ ts_writer.userId \in Users => ts_writer.user = ts_writer.userId
            /\ \A v \in Users \ {ts_writer.user} :
                  /\ getItem(TokenKey(v))' = getItem(TokenKey(v))
                  /\ getItem(TokenSecretKey(v))' = getItem(TokenSecretKey(v))
                  /\ getItem(UsernameKey(v))' = getItem(UsernameKey(v))
                  /\ getStoredTokens(v)' = getStoredTokens(v)]_vars
    /\ [](\A u \in Users :
            /\ (ts_reader.pc = "returned" /\ ts_reader.user = u /\ ts_reader.result # NoTokens)
                  => \A field \in {"token", "tokenSecret", "username"} :
                        ts_reader.result[field] \in GivenFields(u, field)
            /\ getStoredTokens(u) # NoTokens
                  => \A field \in {"token", "tokenSecret", "username"} :
                        getStoredTokens(u)[field] \in GivenFields(u, field))

\* C22 witness: both users hold a token set, B's written after A's, and a
\* getStoredTokens('A') that ran afterwards returned A's
C22_Witness ==
    /\ ts_writer.pc = "returned"
    /\ ts_writer.op = "storeTokens"
    /\ ts_writer.user = "B"
    /\ getStoredTokens("B") = ts_writer.tokens
    /\ ts_reader.pc = "returned"
    /\ ts_reader.user = "A"
    /\ ts_reader.result \in TokenSetsFor("A")
    /\ getStoredTokens("A") = ts_reader.result

\* C27 as stated: a getStoredTokens(u) that runs while storeTokens(new, u)
\* replaces an existing set returns the complete old set, the complete new
\* set or null, never a set with fields of both.
C27_Original ==
    (ts_reader.pc = "returned" /\ ts_reader.user \in Users) =>
        ts_reader.result \in {NoTokens} \cup ts_given[ts_reader.user]

----------------------------------------------------------------------------
(* filterCollection against IMPLEMENTATION.md's matching logic             *)

\* C30 as stated: with a decade selected, filterCollection retains a
\* release only if its year lies in that decade and (a requested genre
\* matches or its genres, styles or title hold a mood/tempo keyword) and
\* its format matches; no release from outside the decade is retained.
C30_Original ==
    (eng_pc = "filtered" /\ answers.decade # "any") =>
        \A k \in 1..Len(filtered) :
            /\ InSelectedDecade(filtered[k])
            /\ GenreMatches(filtered[k]) \/ MoodTempoMatches(filtered[k])
            /\ FormatMatches(filtered[k])
====
